---- MODULE Spec2Model ----
(***************************************************************************)
(* Model of the ball_shooter gameplay engine: the hexagonal grid store,    *)
(* the cluster engine, the snap resolver and the per-turn event pipeline.  *)
(*                                                                         *)
(* World coordinates are fixed-point integers: one world unit of the       *)
(* source (an f32) is 20000 units here, fine enough to keep the inscribed  *)
(* radius 0.866025404 * size apart from SQRT_3 / 2 * size = 0.866 * size,   *)
(* and small enough for 32-bit arithmetic.  A hex is <<q, r>>.  An entity   *)
(* handle is a positive integer that is never reused (Bevy handles carry a *)
(* generation, so a despawned handle never names a later entity).          *)
(***************************************************************************)
EXTENDS Integers, Sequences, FiniteSets, TLC

(***************************************************************************)
(* Bounds of the model.                                                    *)
(***************************************************************************)
GridW == 2          \* columns of the generated grid   (GenerateGrid.0)
GridH == 1          \* height argument of the generated grid (GenerateGrid.1)
NumSpecies == 2     \* species that random_species draws from
MaxTurns == 6       \* no projectile is fired once turn_counter exceeds this
MaxContacts == 2    \* Started pairs reported for the projectile in one tick
MaxQueued == 3      \* BeginTurn events drawn unread in SpecTurn
TallH == 6          \* height argument of the tall grids of SpecSnap
FrameStep == 10000  \* a fifth of the way a fired projectile covers in a frame
LateH == 15         \* lowest row of the late-game grids of SpecOver
LibSpan == 4        \* drawn coordinates and bounds reach from -LibSpan to LibSpan
LibRadius == 2      \* largest radius drawn for the wall clamp
LibCells == 6       \* cells of the region the drawn grids are taken from
HexSpan == 100      \* the hexes converted to world positions have |q|, |r| <= HexSpan
MaxShots == 2       \* no projectile is fired in SpecShot once turn_counter exceeds this

(***************************************************************************)
(* Program constants.  Lengths are in 1/20000 world unit; the coefficients *)
(* SQRT_3 and PROJ_COLLIDER_COEFF are per mille, INNER_RADIUS_COEFF is per *)
(* million.                                                                *)
(***************************************************************************)
SQRT_3 == 1732
INNER_RADIUS_COEFF == 866025
SIZE == 40000
SKIN_WIDTH == 2000
MAX_ITER == 10
MIN_CLUSTER_SIZE == 3
MOVE_DOWN_TURN == 5
PLAYER_SPAWN_Z == 800000
ROW_SLACK == 2000
PROJ_COLLIDER_COEFF == 783
SPAWN_Y == 0
POINT_Y == 0

Species == 0 .. (NumSpecies - 1)

(***************************************************************************)
(* Arithmetic helpers: f32::round (half away from zero) of n / d, d > 0.   *)
(***************************************************************************)
Abs(n) == IF n < 0 THEN -n ELSE n

RoundDiv(n, d) ==
    IF n >= 0 THEN (n + d \div 2) \div d
              ELSE -(((-n) + d \div 2) \div d)

SetMin(S) == CHOOSE x \in S : \A y \in S : x <= y
SetMax(S) == CHOOSE x \in S : \A y \in S : x >= y

(***************************************************************************)
(* hex.rs                                                                  *)
(***************************************************************************)
Directions == <<"N", "NE", "SE", "S", "SW", "NW">>

offset_even(dir) ==
    CASE dir = "N"  -> <<1, -1>>
      [] dir = "NE" -> <<1, 0>>
      [] dir = "SE" -> <<0, 1>>
      [] dir = "S"  -> <<-1, 1>>
      [] dir = "SW" -> <<-1, 0>>
      [] dir = "NW" -> <<0, -1>>

offset_odd(dir) ==
    CASE dir = "N"  -> <<1, -1>>
      [] dir = "NE" -> <<-1, 0>>
      [] dir = "SE" -> <<0, 1>>
      [] dir = "S"  -> <<-1, 1>>
      [] dir = "SW" -> <<1, 0>>
      [] dir = "NW" -> <<0, -1>>

\* Hex::neighbor for the pointy orientation the grid is built with:
\* the table is chosen by the parity of r.
neighbor(hex, dir) ==
    LET off == IF hex[2] % 2 = 0 THEN offset_even(dir) ELSE offset_odd(dir)
    IN  <<hex[1] + off[1], hex[2] + off[2]>>

\* Hex::neighbor for either orientation: the table is chosen by the parity
\* of q (Flat) or of r (Pointy) of the hex stepped from.
Orientations == {"Flat", "Pointy"}

is_even(hex, orientation) ==
    IF orientation = "Flat" THEN hex[1] % 2 = 0 ELSE hex[2] % 2 = 0

neighbor_in(hex, dir, orientation) ==
    LET off == IF is_even(hex, orientation) THEN offset_even(dir) ELSE offset_odd(dir)
    IN  <<hex[1] + off[1], hex[2] + off[2]>>

\* Hex::neighbors for either orientation, in the order of Direction::all().
neighbors_in(hex, orientation) ==
    [i \in 1 .. 6 |-> neighbor_in(hex, Directions[i], orientation)]

\* Hex::neighbors: the six neighbours in the order of Direction::all().
neighbors(hex) == [i \in 1..6 |-> neighbor(hex, Directions[i])]

\* Layout::hex_to_world with POINTY.fwd_matrix = [SQRT_3, SQRT_3/2, 0, 3/2].
hex_to_world(origin, hex) ==
    << ((SQRT_3 * hex[1] + (SQRT_3 \div 2) * hex[2]) * SIZE) \div 1000 + origin[1],
       (3 * hex[2] * SIZE) \div 2 + origin[2] >>

\* Layout::world_to_hex with POINTY.inv_matrix = [SQRT_3/3, -1/3, 0, 2/3]:
\* each axial coordinate is rounded on its own.
world_to_hex(origin, pos) ==
    LET px == pos[1] - origin[1]
        pz == pos[2] - origin[2]
    IN  << RoundDiv(SQRT_3 * px - 1000 * pz, 3 * SIZE * 1000),
           RoundDiv(2 * pz, 3 * SIZE) >>

\* The layout in general: either orientation, any origin and size.  Here a
\* length is an integer number of 1/1024 world units, and an f32 result is
\* rounded to the 24 bits of an f32 significand: a value of magnitude 2^24
\* or more is a multiple of the power of two that leaves 24 bits.
RECURSIVE Ulp(_)
Ulp(a) == IF a < 16777216 THEN 1 ELSE 2 * Ulp(a \div 2)

F32(v) == RoundDiv(v, Ulp(Abs(v))) * Ulp(Abs(v))

\* POINTY and FLAT: fwd_matrix per mille, inv_matrix in 1/3000.
POINTY == [fwd_matrix |-> <<SQRT_3, SQRT_3 \div 2, 0, 1500>>,
           inv_matrix |-> <<SQRT_3, -1000, 0, 2000>>]

FLAT == [fwd_matrix |-> <<1500, 0, SQRT_3 \div 2, SQRT_3>>,
         inv_matrix |-> <<2000, 0, -1000, SQRT_3>>]

transform(orientation) == IF orientation = "Flat" THEN FLAT ELSE POINTY

\* Layout::hex_to_world: (m0 * q + m1 * r) * sx + ox, (m2 * q + m3 * r) * sy + oy.
Layout_hex_to_world(layout, hex) ==
    LET m == transform(layout.orientation).fwd_matrix
    IN  << F32(F32(RoundDiv((m[1] * hex[1] + m[2] * hex[2]) * layout.size[1], 1000))
               + layout.origin[1]),
           F32(F32(RoundDiv((m[3] * hex[1] + m[4] * hex[2]) * layout.size[2], 1000))
               + layout.origin[2]) >>

\* Variant: the coordinates are cast to i32 without rounding first (a cast
\* truncates toward zero).
Layout_world_to_hex_truncating(layout, pos) ==
    LET m == transform(layout.orientation).inv_matrix
        px == RoundDiv(1000 * F32(pos[1] - layout.origin[1]), layout.size[1])
        py == RoundDiv(1000 * F32(pos[2] - layout.origin[2]), layout.size[2])
        x == m[1] * px + m[2] * py
        y == m[3] * px + m[4] * py
    IN  << (IF x >= 0 THEN x \div 3000000 ELSE -((-x) \div 3000000)),
           (IF y >= 0 THEN y \div 3000000 ELSE -((-y) \div 3000000)) >>

\* Layout::world_to_hex: point = (pos - origin) / size, in 1/1000 of a size;
\* each coordinate m * point is rounded on its own.
Layout_world_to_hex(layout, pos) ==
    LET m == transform(layout.orientation).inv_matrix
        px == RoundDiv(1000 * F32(pos[1] - layout.origin[1]), layout.size[1])
        py == RoundDiv(1000 * F32(pos[2] - layout.origin[2]), layout.size[2])
    IN  << RoundDiv(m[1] * px + m[2] * py, 3000000),
           RoundDiv(m[3] * px + m[4] * py, 3000000) >>

\* Layout::hex_world_size for the pointy orientation.
hex_world_size == << ((SIZE \div 1000) * INNER_RADIUS_COEFF) \div 1000, SIZE >>

\* rectangle_pointy(w, h): rows y in 0..=h, each with the columns
\* -(y >> 1) .. w - (y >> 1), in iteration order.
RectRow(w, y) == [i \in 1 .. (IF w > 0 THEN w ELSE 0) |-> <<i - 1 - (y \div 2), y>>]

RECURSIVE RectRows(_, _, _)
RectRows(w, h, y) ==
    IF y > h THEN <<>> ELSE RectRow(w, y) \o RectRows(w, h, y + 1)

\* Variant: the rows stop before h (0..h instead of 0..=h).
rectangle_pointy_exclusive(w, h) == RectRows(w, h - 1, 0)

rectangle_pointy(w, h) == RectRows(w, h, 0)

\* rectangle_flat(w, h): columns x in 0..=w, each with the rows
\* -(x >> 1) .. h - (x >> 1), in iteration order.
FlatCol(h, x) == [i \in 1 .. (IF h > 0 THEN h ELSE 0) |-> <<x, i - 1 - (x \div 2)>>]

RECURSIVE FlatCols(_, _, _)
FlatCols(w, h, x) ==
    IF x > w THEN <<>> ELSE FlatCol(h, x) \o FlatCols(w, h, x + 1)

rectangle_flat(w, h) == FlatCols(w, h, 0)

\* rectangle(w, h, o)
rectangle(w, h, o) ==
    IF o = "Flat" THEN rectangle_flat(w, h) ELSE rectangle_pointy(w, h)

\* hex.down(layout) is not part of hex.rs: the row below in the offset
\* rectangle, the direction alternating with the parity of r.
down(hex) == IF hex[2] % 2 = 0 THEN neighbor(hex, "SE") ELSE neighbor(hex, "S")

(***************************************************************************)
(* ball.rs                                                                 *)
(***************************************************************************)
\* BALL_RADIUS_COEFF = INNER_RADIUS_COEFF * 0.85, per million.
BALL_RADIUS_COEFF == (INNER_RADIUS_COEFF \div 100) * 85

\* Collider radius of a grid ball and of the projectile.
BallRadius == ((SIZE \div 1000) * BALL_RADIUS_COEFF) \div 1000
ProjRadius == (BallRadius * PROJ_COLLIDER_COEFF) \div 1000

(***************************************************************************)
(* grid.rs: the Grid store.  storage is a function from the occupied       *)
(* hexes to entity handles; 0 stands for None.                             *)
(***************************************************************************)
Range(f) == { f[x] : x \in DOMAIN f }
SeqRange(s) == { s[i] : i \in 1 .. Len(s) }

\* The sets that hold exactly one argument of f for each value in vals: the
\* ways an iteration over f in an unspecified order can end for each value.
RECURSIVE Sections(_, _)
SectionsWith(f, vals, v) ==
    { {x} \cup sec : x \in { y \in DOMAIN f : f[y] = v },
                     sec \in Sections(f, vals \ {v}) }

Sections(f, vals) ==
    IF vals = {} THEN { {} } ELSE SectionsWith(f, vals, CHOOSE v \in vals : TRUE)

get(st, hex) == IF hex \in DOMAIN st THEN st[hex] ELSE 0

\* Variant: an occupied cell keeps its occupant when a ball is set.
set_if_vacant(st, hex, entity) ==
    IF entity # 0
      THEN [h \in (DOMAIN st) \cup {hex} |-> IF h \in DOMAIN st THEN st[h] ELSE entity]
      ELSE [h \in (DOMAIN st) \ {hex} |-> st[h]]

set(st, hex, entity) ==
    IF entity # 0
      THEN [h \in (DOMAIN st) \cup {hex} |-> IF h = hex THEN entity ELSE st[h]]
      ELSE [h \in (DOMAIN st) \ {hex} |-> st[h]]

\* Grid::neighbors: the occupied ones among the six neighbours, in order.
IsOccupiedIn(st, hex) == hex \in DOMAIN st

\* Variant: the last of the six directions is left out.
GridNeighborsFive(st, hex, orientation) ==
    SelectSeq(SubSeq(neighbors_in(hex, orientation), 1, 5),
              LAMBDA h : IsOccupiedIn(st, h))

\* Grid::neighbors of a grid whose layout has the given orientation.
GridNeighborsIn(st, hex, orientation) ==
    SelectSeq(neighbors_in(hex, orientation), LAMBDA h : IsOccupiedIn(st, h))

\* Grid::neighbors of the game's grid, whose layout is pointy.
GridNeighbors(st, hex) == GridNeighborsIn(st, hex, "Pointy")

\* Grid::neighbor: None (the empty tuple) when the cell next to hex in the
\* direction is vacant, otherwise the hex it was given with that cell's
\* occupant.
Grid_neighbor(st, hex, dir, orientation) ==
    IF get(st, neighbor_in(hex, dir, orientation)) # 0
      THEN << hex, get(st, neighbor_in(hex, dir, orientation)) >>
      ELSE << >>

\* Grid::update_bounds: ((min_x - sx, max_x + sx), (min_y - sy, max_y + sx)).
\* The scan starts from max = f32::MIN and min = f32::MAX.  F32_MAX stands for
\* f32::MAX: it lies beyond every coordinate, and a hex size added to it or
\* taken from it is rounded away.
F32_MAX == 1073741824

ScanMin(S) == IF S = {} THEN F32_MAX ELSE SetMin(S)
ScanMax(S) == IF S = {} THEN 0 - F32_MAX ELSE SetMax(S)
Widen(v, d) == IF Abs(v) = F32_MAX THEN v ELSE v + d

update_bounds(st, origin) ==
    LET xs == { hex_to_world(origin, h)[1] : h \in DOMAIN st }
        zs == { hex_to_world(origin, h)[2] : h \in DOMAIN st }
        sx == hex_world_size[1]
        sy == hex_world_size[2]
    IN  << << Widen(ScanMin(xs), 0 - sx), Widen(ScanMax(xs), sx) >>,
           << Widen(ScanMin(zs), 0 - sy), Widen(ScanMax(zs), sx) >> >>

\* Grid::ensure_centered: the origin it installs (bounds are then recomputed).
ensure_centered(st, origin) ==
    LET b == update_bounds(st, origin)
        half_w == b[1][2] \div 2
        half_h == b[2][2] \div 2
    IN  << (0 - half_w) + hex_world_size[1] \div 2, (0 - half_h) + hex_world_size[2] \div 2 >>

\* Grid::columns: round(w / hw / 2) with w the width of the cached bounds.
columns(bnds) ==
    RoundDiv(Abs(bnds[1][2] - bnds[1][1]), 2 * hex_world_size[1])

(***************************************************************************)
(* grid.rs: the cluster engine.  The predicate is given as the set of      *)
(* entities it accepts.                                                    *)
(***************************************************************************)
\* The neighbours Grid::neighbors lists for hex, in the order in which the
\* loop visits them when the six directions are taken in the order dirs
\* (Direction::all() gives Directions, which leaves the list as it is).
VisitOrder(listed, hex, orientation, dirs) ==
    SelectSeq([i \in 1 .. 6 |-> neighbor_in(hex, dirs[i], orientation)],
              LAMBDA h : h \in SeqRange(listed))

\* The loop of find_cluster.  pushed logs every push onto to_process, in
\* order, the push of the origin included; it is returned with the cluster
\* and the processed set.
RECURSIVE FindLoop(_, _, _, _, _, _, _, _)
FindLoop(st, accept, to_process, processed, cluster, orientation, pushed, dirs) ==
    IF to_process = <<>> THEN <<cluster, processed, pushed>>
    ELSE
      LET current == to_process[Len(to_process)]
          rest == SubSeq(to_process, 1, Len(to_process) - 1)
      IN  IF get(st, current) = 0 \/ get(st, current) \notin accept
            THEN FindLoop(st, accept, rest, processed, cluster, orientation, pushed, dirs)
            ELSE
              LET fresh == SelectSeq(VisitOrder(GridNeighborsIn(st, current, orientation),
                                                current, orientation, dirs),
                                     LAMBDA h : h \notin processed)
              IN  FindLoop(st, accept, rest \o fresh,
                           processed \cup SeqRange(fresh),
                           Append(cluster, current), orientation, pushed \o fresh, dirs)

\* find_cluster with the neighbours visited in the order dirs.
find_cluster_by(st, origin, accept, orientation, dirs) ==
    FindLoop(st, accept, <<origin>>, {origin}, <<>>, orientation, <<origin>>, dirs)

\* Variant: the origin is not marked as processed before the loop.
find_cluster_unmarked(st, origin, accept, orientation) ==
    FindLoop(st, accept, <<origin>>, {}, <<>>, orientation, <<origin>>, Directions)

\* find_cluster(grid, origin, pred) -> (cluster, processed), with the log of
\* the pushes as a third component.
find_cluster_in(st, origin, accept, orientation) ==
    find_cluster_by(st, origin, accept, orientation, Directions)

\* find_cluster on the game's grid, whose layout is pointy.
find_cluster(st, origin, accept) == find_cluster_in(st, origin, accept, "Pointy")

\* find_floating_clusters, the map iterated in the order `order`.  A cluster
\* is floating when none of its hexes has r = 0.
\* Variant: no cluster is ever found floating.
IsFloatingNever(cluster) ==
    Len(cluster) > 0 /\ \A k \in 1 .. Len(cluster) : cluster[k][2] # cluster[k][2]

\* Variant: a cluster is floating when the first hex found is not at r = 0.
IsFloatingByFirst(cluster) ==
    Len(cluster) > 0 /\ cluster[1][2] # 0

IsFloating(cluster) ==
    Len(cluster) > 0 /\ \A k \in 1 .. Len(cluster) : cluster[k][2] # 0

RECURSIVE FloatLoop(_, _, _, _, _, _, _)
FloatVisit(st, order, i, processed, floating_clusters, orientation, dirs, res) ==
    FloatLoop(st, order, i + 1, processed \cup res[2],
              IF IsFloating(res[1]) THEN Append(floating_clusters, res[1])
                                    ELSE floating_clusters,
              orientation, dirs)

FloatLoop(st, order, i, processed, floating_clusters, orientation, dirs) ==
    IF i > Len(order) THEN floating_clusters
    ELSE IF order[i] \in processed
      THEN FloatLoop(st, order, i + 1, processed, floating_clusters, orientation, dirs)
      ELSE FloatVisit(st, order, i, processed, floating_clusters, orientation, dirs,
                      find_cluster_by(st, order[i], Range(st), orientation, dirs))

\* find_floating_clusters, the map iterated in the order `order` and the
\* neighbours visited in the order dirs.
find_floating_clusters_by(st, order, orientation, dirs) ==
    FloatLoop(st, order, 1, {}, <<>>, orientation, dirs)

find_floating_clusters_in(st, order, orientation) ==
    find_floating_clusters_by(st, order, orientation, Directions)

\* find_floating_clusters on the game's grid, whose layout is pointy.
find_floating_clusters(st, order) == find_floating_clusters_in(st, order, "Pointy")

\* One iteration order of a map's keys: by row, then by column.
HexLess(a, b) == a[2] < b[2] \/ (a[2] = b[2] /\ a[1] < b[1])

RECURSIVE KeyOrder(_)
KeyOrder(S) ==
    IF S = {} THEN <<>>
    ELSE LET m == CHOOSE a \in S : \A b \in S \ {a} : HexLess(a, b)
         IN  <<m>> \o KeyOrder(S \ {m})

\* The hexes of a list of clusters, flattened in order.
RECURSIVE Flatten(_)
Flatten(clusters) ==
    IF clusters = <<>> THEN <<>> ELSE Head(clusters) \o Flatten(Tail(clusters))

(***************************************************************************)
(* projectile.rs: clamping against the world bounds.  A result is          *)
(* <<position, was_clamped>>.                                              *)
(***************************************************************************)
\* Variant: at the right wall the position is moved back by size.
clamp_stepping_back(pos, size, x_bounds) ==
    LET x0 == pos[1] - size
        x1 == pos[1] + size
    IN  IF x0 <= x_bounds[1] THEN << <<x_bounds[1] + size, pos[2]>>, TRUE >>
        ELSE IF x1 >= x_bounds[2] THEN << <<pos[1] - size, pos[2]>>, TRUE >>
        ELSE << pos, FALSE >>

\* clamp_inside_world_bounds(pos, size, x_bounds): the side walls.
clamp_inside_world_bounds(pos, size, x_bounds) ==
    LET x0 == pos[1] - size
        x1 == pos[1] + size
    IN  IF x0 <= x_bounds[1] THEN << <<x_bounds[1] + size, pos[2]>>, TRUE >>
        ELSE IF x1 >= x_bounds[2] THEN << <<x_bounds[2] - size, pos[2]>>, TRUE >>
        ELSE << pos, FALSE >>

\* The top wall: z - size <= bounds.min.z clamps z to bounds.min.z + size.
clamp_top(pos, size, z_bounds) ==
    IF pos[2] - size <= z_bounds[1]
      THEN << <<pos[1], z_bounds[1] + size>>, TRUE >>
      ELSE << pos, FALSE >>

\* The clamp the snap resolver calls with the whole bounds: side walls, then top.
clamp_in_bounds(pos, size, bnds) ==
    LET cx == clamp_inside_world_bounds(pos, size, bnds[1])
        cz == clamp_top(cx[1], size, bnds[2])
    IN  << cz[1], cx[2] \/ cz[2] >>

(***************************************************************************)
(* gameplay.rs: the snap resolver.                                         *)
(***************************************************************************)
\* radius = hex_radius + SKIN_WIDTH
SnapRadius == hex_world_size[1] + SKIN_WIDTH

\* hex = from_world(translation), re-resolved when the clamp moved its centre.
FirstHex(origin, bnds, pos) ==
    LET hex == world_to_hex(origin, pos)
        c == clamp_in_bounds(hex_to_world(origin, hex), SnapRadius, bnds)
    IN  IF c[2] THEN world_to_hex(origin, c[1]) ELSE hex

\* Variant: the limit test is strict, one more iteration is allowed.
IterLimitExceeded(iter) == iter > MAX_ITER

\* if iter >= MAX_ITER { break; }
IterLimitReached(iter) == iter >= MAX_ITER

\* while let Some(_) = grid.get(hex) { step; clamp; re-resolve; iter += 1; ... }
RECURSIVE SearchLoop(_, _, _, _, _, _)
SearchLoop(st, origin, bnds, translation, hex, iter) ==
    IF get(st, hex) = 0 THEN [hex |-> hex, iter |-> iter]
    ELSE
      LET t1 == clamp_in_bounds(<<translation[1], translation[2] + SnapRadius>>,
                                SnapRadius, bnds)[1]
          h1 == world_to_hex(origin, t1)
      IN  IF IterLimitReached(iter + 1)
            THEN [hex |-> h1, iter |-> iter + 1]
            ELSE SearchLoop(st, origin, bnds, t1, h1, iter + 1)

SnapSearch(st, origin, bnds, pos) ==
    SearchLoop(st, origin, bnds, pos, FirstHex(origin, bnds, pos), 0)

\* The predicate of the match cluster: the new ball, or a live ball of the
\* projectile's species (balls.get(e) fails for an entity that is not live).
MatchAccept(bl, ball, species) ==
    {ball} \cup { e \in DOMAIN bl : bl[e].sp = species }

\* Variant: a pair already counts as a match.
IsMatchPair(cluster) == Len(cluster) >= MIN_CLUSTER_SIZE - 1

\* cluster.len() >= MIN_CLUSTER_SIZE
IsMatch(cluster) == Len(cluster) >= MIN_CLUSTER_SIZE

\* A removal loop over a list of hexes: despawn the occupant, clear the cell,
\* score_add += 1.  acc = [st, despawned (a sequence), score_add, panic];
\* commands.entity(e) panics for a handle that names no entity.
\* Variant: a removal takes one point away.
ScoreStepDown(score_add) == score_add - 1

ScoreStep(score_add) == score_add + 1

RECURSIVE RemoveLoop(_, _, _, _)
RemoveLoop(hexes, i, exists, acc) ==
    IF i > Len(hexes) \/ acc.panic THEN acc
    ELSE
      LET e == get(acc.st, hexes[i])
      IN  IF e \notin exists
            THEN [acc EXCEPT !.panic = TRUE]
            ELSE RemoveLoop(hexes, i + 1, exists,
                            [st |-> set(acc.st, hexes[i], 0),
                             despawned |-> Append(acc.despawned, e),
                             score_add |-> ScoreStep(acc.score_add),
                             panic |-> FALSE])

\* Variant: the descent is due at every snap from the fifth turn on.
DescentFromFifth(turn) == turn >= MOVE_DOWN_TURN

\* Variant: the descent is tested on the counter incremented by the resolver.
DescentAfterIncrement(turn) == (turn + 1) % MOVE_DOWN_TURN = 0

\* turn_counter.0 % MOVE_DOWN_TURN == 0
DescentDue(turn) == turn % MOVE_DOWN_TURN = 0

(***************************************************************************)
(* State.                                                                  *)
(***************************************************************************)
VARIABLES
    storage,       \* Grid.storage: hex -> entity
    origin,        \* Grid.layout.origin
    bounds,        \* Grid.bounds: <<(min_x, max_x), (min_z, max_z)>>
    dirty,         \* Grid.dirty
    balls,         \* live Ball entities: handle -> [sp, hex] (Species, Hex tag)
    changed,       \* entities whose Hex was added or changed since the last upkeep
    cmds,          \* Commands queued in the Update stage, applied at its end
    proj,          \* the projectile: [st, sp, pos, vel]
    snapEvents,    \* unread SnapProjectile events
    btTurn,        \* BeginTurn events unread by on_begin_turn
    btReload,      \* BeginTurn events unread by the reload system
    turn_counter,  \* TurnCounter
    score,         \* Score
    nextId,        \* next entity handle
    phase,         \* "update": the Update stage; "post": the PostPhysics stage
    ran,           \* systems that ran in the current Update stage
    panicked,      \* a system panicked: the application is gone
    snap,          \* the latest snap resolution, kept for one more tick
    seed,          \* the seed of the species draws
    hist,          \* counters: snap resolutions, ticks with contact events
    lib,           \* the latest call of a library function: [fn, args, ret]
    app            \* State<AppState>: [state, next, gen, shown]

vars == << storage, origin, bounds, dirty, balls, changed, cmds, proj, snapEvents,
           btTurn, btReload, turn_counter, score, nextId, phase, ran, panicked,
           snap, seed, lib, hist, app >>

\* A velocity is the displacement of one frame; a fired projectile covers five
\* times FrameStep in a frame.  Straight is the shot straight up the field.
Zero == <<0, 0>>
Straight == <<0, -5 * FrameStep>>

\* The pointer straight up the field from the projectile, in world units.
StraightAhead == <<0, -5>>

NoProj == [st |-> "none", sp |-> 0, pos |-> <<0, 0>>, y |-> 0, vel |-> Zero, vy |-> 0]
NoCmds == [kill |-> FALSE, spawn |-> <<>>, despawn |-> {}, retag |-> <<>>, reload |-> -1]
NoSnap == [n |-> 0]
NoHist == [snaps |-> 0, episodes |-> 0]
NoCall == [fn |-> "none", args |-> <<>>, ret |-> <<>>]

\* State<AppState> with what hangs on it: the current state, the transition
\* queued by State::set, whether the GenerateGrid resource is still there, and
\* the score the game-over menu read when it was set up.
AppIn(st) == [state |-> st, next |-> "none", gen |-> FALSE, shown |-> -1]

ShooterPos == <<0, PLAYER_SPAWN_Z>>

\* random_species: the draws follow from a seed <<a, b, c, d>>.  A ball spawned
\* for a hex gets (a * q + b * r) % NumSpecies, the k-th projectile gets
\* (c + d * k) % NumSpecies.
Seeds == {0, 1} \X {0, 1} \X Species \X {0, 1}

Pattern(a, b, c, hex) == (a * hex[1] + b * hex[2] + c) % NumSpecies

random_species(sd, hex) == Pattern(sd[1], sd[2], 0, hex)

ProjectileSpecies(sd, k) == (sd[3] + sd[4] * k) % NumSpecies

\* generate_grid: one ball per hex of rectangle(w, h), handles in spawn order,
\* then ensure_centered.
GeneratedStorage(w, h) ==
    LET cells == rectangle_pointy(w, h)
    IN  [c \in SeqRange(cells) |-> CHOOSE i \in 1 .. Len(cells) : cells[i] = c]

GeneratedBalls(w, h, sd) ==
    LET cells == rectangle_pointy(w, h)
    IN  [i \in 1 .. Len(cells) |-> [sp |-> random_species(sd, cells[i]), hex |-> cells[i]]]

InitGrid(w, h) ==
    /\ storage = GeneratedStorage(w, h)
    /\ origin = ensure_centered(GeneratedStorage(w, h), <<0, 0>>)
    /\ bounds = update_bounds(GeneratedStorage(w, h),
                              ensure_centered(GeneratedStorage(w, h), <<0, 0>>))
    /\ dirty = FALSE
    /\ balls = GeneratedBalls(w, h, seed)
    /\ changed = DOMAIN GeneratedBalls(w, h, seed)
    /\ nextId = Len(rectangle_pointy(w, h)) + 1

\* setup_gameplay: score = 0, turn_counter = 0, BeginTurn sent.
Init ==
    /\ seed \in Seeds
    /\ InitGrid(GridW, GridH)
    /\ cmds = NoCmds
    /\ proj = NoProj
    /\ snapEvents = 0
    /\ btTurn = 1
    /\ btReload = 1
    /\ turn_counter = 0
    /\ score = 0
    /\ phase = "update"
    /\ ran = {}
    /\ panicked = FALSE
    /\ snap = NoSnap
    /\ app = AppIn("Gameplay")
    /\ hist = NoHist
    /\ lib = NoCall

\* The systems of the Update stage run once per tick while the state is
\* Gameplay, in any order.  Systems that share no data are taken in one order:
\* on_begin_turn and the reload after upkeep_hex_transforms and
\* check_game_over, aim_projectile last; on_snap_projectile runs anywhere
\* among them.
Running(sys) ==
    ~panicked /\ app.state = "Gameplay" /\ phase = "update" /\ sys \notin ran

(***************************************************************************)
(* gameplay.rs: check_game_over.  The game-over row lies two rows from the *)
(* shooter's hex; the game is over when an occupied cell of the map lies   *)
(* on it or beyond.  State::set queues the transition and fails when one   *)
(* is queued already.                                                      *)
(***************************************************************************)
projectile_hex(org) == world_to_hex(org, ShooterPos)

game_over_row(org) == down(down(projectile_hex(org)))

row_pos(org) == hex_to_world(org, game_over_row(org))

\* Variant: the cell has to lie strictly beyond the row.
IsOverBeyond(st, org) ==
    \E hex \in DOMAIN st : hex_to_world(org, hex)[2] > row_pos(org)[2]

IsOver(st, org) ==
    \E hex \in DOMAIN st : hex_to_world(org, hex)[2] >= row_pos(org)[2] - ROW_SLACK

check_game_over ==
    /\ Running("over")
    /\ ran' = ran \cup {"over"}
    /\ IF IsOver(storage, origin)
         THEN IF app.next = "none"
                THEN /\ app' = [app EXCEPT !.next = "GameOver"]
                     /\ UNCHANGED panicked
                ELSE /\ panicked' = TRUE
                     /\ UNCHANGED app
         ELSE UNCHANGED << app, panicked >>
    /\ UNCHANGED << storage, origin, bounds, dirty, balls, changed, cmds, proj,
                    snapEvents, btTurn, btReload, turn_counter, score, nextId, phase,
                    snap, seed, lib, hist >>

(***************************************************************************)
(* gameplay.rs: on_begin_turn                                              *)
(***************************************************************************)
\* Variant: the counter is incremented once per queued event.
on_begin_turn_per_event ==
    /\ Running("begin")
    /\ changed = {} \/ "upkeep" \in ran
    /\ "over" \in ran
    /\ btTurn' = 0
    /\ turn_counter' = turn_counter + btTurn
    /\ ran' = ran \cup {"begin"}
    /\ UNCHANGED << storage, origin, bounds, dirty, balls, changed, cmds, proj,
                    snapEvents, btReload, score, nextId, phase, panicked, snap, seed, lib, hist, app >>

\* Variant: a BeginTurn sent earlier in the same tick is read and not counted.
on_begin_turn_late_event_lost ==
    /\ Running("begin")
    /\ changed = {} \/ "upkeep" \in ran
    /\ "over" \in ran
    /\ IF btTurn = 0 \/ "snap" \in ran
         THEN btTurn' = 0 /\ UNCHANGED turn_counter
         ELSE /\ btTurn' = 0
              /\ turn_counter' = turn_counter + 1
    /\ ran' = ran \cup {"begin"}
    /\ UNCHANGED << storage, origin, bounds, dirty, balls, changed, cmds, proj,
                    snapEvents, btReload, score, nextId, phase, panicked, snap, seed, lib, hist, app >>

on_begin_turn ==
    /\ Running("begin")
    /\ changed = {} \/ "upkeep" \in ran
    /\ "over" \in ran
    /\ IF btTurn = 0
         THEN UNCHANGED << btTurn, turn_counter >>
         ELSE /\ btTurn' = 0
              /\ turn_counter' = turn_counter + 1
    /\ ran' = ran \cup {"begin"}
    /\ UNCHANGED << storage, origin, bounds, dirty, balls, changed, cmds, proj,
                    snapEvents, btReload, score, nextId, phase, panicked, snap, seed, lib, hist, app >>

(***************************************************************************)
(* The reload system: on BeginTurn, spawn one idle projectile at the        *)
(* shooter position with a drawn species (the spawn is a queued command).  *)
(***************************************************************************)
\* Variant: the events are read and no projectile is spawned.
projectile_reload_dropped ==
    /\ Running("reload")
    /\ changed = {} \/ "upkeep" \in ran
    /\ "over" \in ran
    /\ btReload' = 0
    /\ ran' = ran \cup {"reload"}
    /\ UNCHANGED << storage, origin, bounds, dirty, balls, changed, proj, snapEvents, cmds,
                    btTurn, turn_counter, score, nextId, phase, panicked, snap, seed, lib, hist, app >>

\* Variant: a projectile is spawned in every tick.
projectile_reload_every_tick ==
    /\ Running("reload")
    /\ changed = {} \/ "upkeep" \in ran
    /\ "over" \in ran
    /\ btReload' = 0
    /\ cmds' = [cmds EXCEPT !.reload = ProjectileSpecies(seed, hist.snaps)]
    /\ ran' = ran \cup {"reload"}
    /\ UNCHANGED << storage, origin, bounds, dirty, balls, changed, proj, snapEvents,
                    btTurn, turn_counter, score, nextId, phase, panicked, snap, seed, lib, hist, app >>

projectile_reload ==
    /\ Running("reload")
    /\ changed = {} \/ "upkeep" \in ran
    /\ "over" \in ran
    /\ IF btReload = 0
         THEN UNCHANGED << btReload, cmds >>
         ELSE /\ btReload' = 0
              /\ cmds' = [cmds EXCEPT !.reload = ProjectileSpecies(seed, hist.snaps)]
    /\ ran' = ran \cup {"reload"}
    /\ UNCHANGED << storage, origin, bounds, dirty, balls, changed, proj, snapEvents,
                    btTurn, turn_counter, score, nextId, phase, panicked, snap, seed, lib, hist, app >>

(***************************************************************************)
(* projectile.rs: aim_projectile, on the fire edge.  The query matches the  *)
(* projectile whose Flying flag is false: the edge sets its velocity and   *)
(* its flag, and does nothing to a projectile that flies already.          *)
(***************************************************************************)
\* Variant: the edge also sets the velocity of a projectile that flies.
AimAny(p, v) == [p EXCEPT !.st = "flying", !.vel = v]

Aim(p, v) == IF p.st = "idle" THEN [p EXCEPT !.st = "flying", !.vel = v] ELSE p

\* Vec3::length of a difference given in 1/20 world unit, to the unit below.
Norm(dx, dy, dz) ==
    CHOOSE n \in 0 .. (Abs(dx) + Abs(dy) + Abs(dz)) :
        /\ n * n <= dx * dx + dy * dy + dz * dz
        /\ dx * dx + dy * dy + dz * dz < (n + 1) * (n + 1)

\* Variant: the point aimed at is left at the height of the balls' centres.
aim_velocity_raised(p, d) ==
    LET dy == (BallRadius - p.y) \div 1000
        n  == Norm(20 * d[1], dy, 20 * d[2])
    IN  [vel |-> << (20 * d[1] * 5 * FrameStep) \div n, (20 * d[2] * 5 * FrameStep) \div n >>,
         vy  |-> (dy * 5 * FrameStep) \div n]

\* The velocity a click gives: (point - translation).normalize() * PROJECTILE_SPEED,
\* where point is the pointer's point on the projectile's plane with point.y
\* set to 0.0.  d = <<dx, dz>> is the offset of that point from the projectile
\* in world units, at least one unit up the field (Z_OFFSET).
aim_velocity(p, d) ==
    LET dy == (POINT_Y - p.y) \div 1000
        n  == Norm(20 * d[1], dy, 20 * d[2])
    IN  [vel |-> << (20 * d[1] * 5 * FrameStep) \div n, (20 * d[2] * 5 * FrameStep) \div n >>,
         vy  |-> (dy * 5 * FrameStep) \div n]

\* The click on a projectile: all three components of linvel are set.
Fire(p, d) ==
    IF p.st = "idle"
      THEN [Aim(p, aim_velocity(p, d).vel) EXCEPT !.vy = aim_velocity(p, d).vy]
      ELSE Aim(p, aim_velocity(p, d).vel)

aim_projectile ==
    /\ Running("aim")
    /\ "begin" \in ran
    /\ "reload" \in ran
    /\ proj.st \in {"idle", "flying"}
    /\ proj.st = "idle" => turn_counter <= MaxTurns
    /\ proj' = Fire(proj, StraightAhead)
    /\ ran' = ran \cup {"aim"}
    /\ UNCHANGED << storage, origin, bounds, dirty, balls, changed, cmds, snapEvents,
                    btTurn, btReload, turn_counter, score, nextId, phase, panicked,
                    snap, seed, lib, hist, app >>

(***************************************************************************)
(* grid.rs: move_down_and_spawn.  Every (hex, entity) entry of the map     *)
(* queues an insert of hex.down() on the entity; then one ball is spawned  *)
(* per hex of rectangle(columns(), 1), tagged with the hex.  The map       *)
(* itself is not written.                                                  *)
(***************************************************************************)
\* The entries whose insert is the last one queued for their entity: one entry
\* per entity of the map, chosen by the map's iteration order.
LastEntries(st) == Sections(st, Range(st))

\* The hex tags the queued inserts leave on the entities of the map.
Retag(st, sel) ==
    [e \in Range(st) |-> down(CHOOSE c \in sel : st[c] = e)]

\* The hexes of the spawned balls.
SpawnRow(bnds) == rectangle_pointy(columns(bnds), 1)

\* The spawned balls: handles first .. first + n - 1, species drawn by a pattern.
RowBalls(bnds, first, sd) ==
    LET cells == SpawnRow(bnds)
    IN  [e \in first .. (first + Len(cells) - 1) |->
           [sp |-> random_species(sd, cells[e - first + 1]), hex |-> cells[e - first + 1]]]

\* move_down_and_spawn as a whole: the commands it queues.
move_down_and_spawn(st, bnds, exists, first, sel, sd) ==
    [retag |-> Retag(st, sel),
     rows  |-> RowBalls(bnds, first, sd),
     panic |-> \E e \in Range(st) : e \notin exists]

(***************************************************************************)
(* gameplay.rs: on_snap_projectile, stage by stage.                        *)
(***************************************************************************)
\* Variant: the resolver consumes one event and leaves the others unread.
ConsumeOne(n) == n - 1

\* snap_projectile.clear()
ClearEvents(n) == 0

\* The resolved hex of the flying projectile and the iterations spent.
Searched == SnapSearch(storage, origin, bounds, proj.pos)

\* The ball is spawned with the hex and installed: grid.set(hex, Some(ball)).
Install(s) ==
    [hex |-> s.hex, iters |-> s.iter, ball |-> nextId,
     exists |-> DOMAIN balls \cup {nextId},
     pre |-> storage, st1 |-> set(storage, s.hex, nextId)]

\* find_cluster from the new hex with the species predicate.
MatchCluster(h) ==
    find_cluster(h.st1, h.hex, MatchAccept(balls, h.ball, proj.sp))[1]

Acc0(st) == [st |-> st, despawned |-> <<>>, score_add |-> 0, panic |-> FALSE]

\* "remove matching clusters"
MatchStep(h, cluster) ==
    [cluster |-> cluster, matched |-> IsMatch(cluster),
     acc |-> IF IsMatch(cluster)
               THEN RemoveLoop(cluster, 1, h.exists, Acc0(h.st1))
               ELSE Acc0(h.st1)]

\* "remove floating clusters"
FloatingHexes(st) == Flatten(find_floating_clusters(st, KeyOrder(DOMAIN st)))

FloatingSweep(acc, exists) == RemoveLoop(FloatingHexes(acc.st), 1, exists, acc)

\* The map's keys as the iteration that starts k entries into the order by
\* row and column yields them, forwards or backwards.
Rotate(seq, k) ==
    IF seq = <<>> \/ k % Len(seq) = 0 THEN seq
    ELSE SubSeq(seq, (k % Len(seq)) + 1, Len(seq)) \o SubSeq(seq, 1, k % Len(seq))

RECURSIVE Backwards(_)
Backwards(seq) ==
    IF seq = <<>> THEN <<>> ELSE Append(Backwards(Tail(seq)), Head(seq))

MapOrder(S, k, backwards) ==
    IF backwards THEN Backwards(Rotate(KeyOrder(S), k)) ELSE Rotate(KeyOrder(S), k)

\* The match step and the two floating sweeps of a resolution in which the
\* map is iterated in the order (k, backwards) and the neighbours of a cell
\* are visited in the order dirs.
SweepBy(acc, exists, k, backwards, dirs) ==
    RemoveLoop(Flatten(find_floating_clusters_by(
                   acc.st, MapOrder(DOMAIN acc.st, k, backwards), "Pointy", dirs)),
               1, exists, acc)

MatchBy(h, dirs) ==
    MatchStep(h, find_cluster_by(h.st1, h.hex, MatchAccept(balls, h.ball, proj.sp),
                                 "Pointy", dirs)[1])

ClearedBy(h, k, backwards, dirs) ==
    SweepBy(SweepBy(MatchBy(h, dirs).acc, h.exists, k, backwards, dirs),
            h.exists, k, backwards, dirs)

HeadWith(h, m) ==
    [hex |-> h.hex, iters |-> h.iters, ball |-> h.ball, exists |-> h.exists,
     pre |-> h.pre, st1 |-> h.st1, cluster |-> m.cluster, matched |-> m.matched,
     st2 |-> m.acc.st, a1 |-> FloatingSweep(m.acc, h.exists)]

HeadOf(h) == HeadWith(h, MatchStep(h, MatchCluster(h)))

\* The resolution up to the first floating sweep.
ResolveHead == HeadOf(Install(Searched))

NoDescent == [retag |-> <<>>, rows |-> <<>>, panic |-> FALSE]

Finish(h, d, a2) ==
    [hex |-> h.hex, iters |-> h.iters, ball |-> h.ball,
     pre |-> h.pre, st1 |-> h.st1, cluster |-> h.cluster, matched |-> h.matched,
     st2 |-> h.st2, st3 |-> h.a1.st, descended |-> DescentDue(turn_counter),
     retag |-> d.retag, rows |-> d.rows, st |-> a2.st,
     despawned |-> a2.despawned, score_add |-> a2.score_add,
     panic |-> a2.panic \/ d.panic]

\* The descent, when due, and the second floating sweep; sel is the choice the
\* map's iteration order makes in the descent.
Resolve(h, sel) ==
    Finish(h,
           IF DescentDue(turn_counter)
             THEN move_down_and_spawn(h.a1.st, bounds, h.exists, nextId + 1, sel, seed)
             ELSE NoDescent,
           FloatingSweep(h.a1, h.exists))

\* The effects of a resolution r: commands, map, score, BeginTurn.
Resolved(r) ==
    IF r.panic
      THEN /\ panicked' = TRUE
           /\ UNCHANGED << storage, dirty, cmds, score, nextId, btTurn, btReload,
                           snap, hist >>
      ELSE /\ storage' = r.st
           /\ dirty' = TRUE
           /\ cmds' = [cmds EXCEPT
                  !.kill = TRUE,
                  !.spawn = (r.ball :> [sp |-> proj.sp, hex |-> r.hex]) @@ r.rows,
                  !.despawn = SeqRange(r.despawned),
                  !.retag = r.retag]
           /\ score' = score + r.score_add
           /\ nextId' = nextId + 1 + Cardinality(DOMAIN r.rows)
           /\ btTurn' = btTurn + 1
           /\ btReload' = btReload + 1
           /\ snap' = [n |-> hist.snaps + 1, turn |-> turn_counter, sp |-> proj.sp,
                       events |-> snapEvents, score0 |-> score, fresh |-> TRUE,
                       r |-> r]
           /\ hist' = [hist EXCEPT !.snaps = @ + 1]
           /\ panicked' = FALSE

on_snap_projectile ==
    /\ Running("snap")
    /\ snapEvents > 0
    /\ snapEvents' = ClearEvents(snapEvents)
    /\ ran' = ran \cup {"snap"}
    /\ IF proj.st = "flying"
         THEN \E h \in {ResolveHead} :
              \E sel \in LastEntries(h.a1.st) :
              \E r \in {Resolve(h, sel)} : Resolved(r)
         ELSE UNCHANGED << storage, dirty, cmds, score, nextId, btTurn, btReload,
                           snap, hist, panicked >>
    /\ UNCHANGED << origin, bounds, balls, changed, proj, turn_counter, phase, seed, lib,
                    app >>

(***************************************************************************)
(* grid.rs: upkeep_hex_transforms.  Every entity whose Hex changed is      *)
(* written into the map at its hex, in query order: of several entities    *)
(* tagged with one hex, the last one visited stays.                        *)
(***************************************************************************)
\* The sets of entities whose write is the last one to its hex.
Winners(ents) ==
    Sections([e \in ents |-> balls[e].hex], { balls[e].hex : e \in ents })

UpkeepStorage(st, w) ==
    LET tags == { balls[e].hex : e \in w }
    IN  [h \in DOMAIN st \cup tags |->
           IF h \in tags THEN CHOOSE e \in w : balls[e].hex = h ELSE st[h]]

upkeep_hex_transforms ==
    /\ Running("upkeep")
    /\ changed # {}
    /\ \E w \in Winners(changed) : storage' = UpkeepStorage(storage, w)
    /\ dirty' = TRUE
    /\ changed' = {}
    /\ ran' = ran \cup {"upkeep"}
    /\ UNCHANGED << origin, bounds, balls, cmds, proj, snapEvents, btTurn, btReload,
                    turn_counter, score, nextId, phase, panicked, snap, seed, lib, hist, app >>

(***************************************************************************)
(* The end of the Update stage: the queued commands are applied in order.  *)
(* An insert on an entity despawned earlier in the queue panics.           *)
(***************************************************************************)
Restrict(f, S) == [x \in DOMAIN f \cap S |-> f[x]]

\* Every system of the running state has had its turn.
PassDone ==
    IF app.state = "Gameplay"
      THEN /\ "reload" \in ran
           /\ "begin" \in ran
           /\ snapEvents = 0 \/ "snap" \in ran
           /\ changed = {} \/ "upkeep" \in ran
      ELSE TRUE

ApplyCommands ==
    /\ ~panicked
    /\ phase = "update"
    /\ PassDone
    /\ app.next = "none"
    /\ LET b1 == cmds.spawn @@ balls
           b2 == Restrict(b1, DOMAIN b1 \ cmds.despawn)
           b3 == [e \in DOMAIN b2 |->
                    IF e \in DOMAIN cmds.retag
                      THEN [b2[e] EXCEPT !.hex = cmds.retag[e]] ELSE b2[e]]
       IN  IF \E e \in DOMAIN cmds.retag : e \notin DOMAIN b2
             THEN /\ panicked' = TRUE
                  /\ UNCHANGED << balls, changed, proj, cmds, phase, snap >>
             ELSE /\ panicked' = FALSE
                  /\ balls' = b3
                  /\ changed' = changed \cup
                                ((DOMAIN cmds.spawn \cup DOMAIN cmds.retag) \cap DOMAIN b3)
                  /\ proj' = IF cmds.reload >= 0
                               THEN [st |-> "idle", sp |-> cmds.reload,
                                     pos |-> ShooterPos, y |-> SPAWN_Y, vel |-> Zero, vy |-> 0]
                               ELSE IF cmds.kill THEN NoProj ELSE proj
                  /\ cmds' = NoCmds
                  /\ phase' = "post"
                  /\ snap' = IF snap.n > 0 /\ snap.fresh
                               THEN [snap EXCEPT !.fresh = FALSE] ELSE NoSnap
    /\ UNCHANGED << storage, origin, bounds, dirty, snapEvents, btTurn, btReload,
                    turn_counter, score, nextId, ran, seed, lib, hist, app >>

(***************************************************************************)
(* The PostPhysics stage.  The player shoots straight up one of the        *)
(* columns; the projectile is observed on a lattice of half hex sizes, at  *)
(* the first position from the shooter's side where it touches a ball.     *)
(***************************************************************************)
HalfColumn == (SQRT_3 * SIZE) \div 2000
HalfSize == SIZE \div 2

\* r_skin of the flying projectile
ProjSkin == ProjRadius + SKIN_WIDTH

\* Two spheres touch: the distance of the centres is at most the radii's sum.
Touches(p, c) ==
    LET dx == (p[1] - c[1]) \div 100
        dz == (p[2] - c[2]) \div 100
        d  == (BallRadius + ProjRadius) \div 100
    IN  dx * dx + dz * dz <= d * d

\* The grid balls the projectile at p touches.
NearBalls(bl, org, p) ==
    { e \in DOMAIN bl : Touches(p, hex_to_world(org, bl[e].hex)) }

LowestRow(bl) == SetMax({0} \cup { bl[e].hex[2] : e \in DOMAIN bl })

\* The x of the shots: the centres of the columns.
AimColumns == { origin[1] + 2 * i * HalfColumn : i \in 0 .. (columns(bounds) - 1) }

\* The lattice heights at which a projectile in column x touches a ball.
ContactHeights(x) ==
    { z \in { origin[2] + k * HalfSize : k \in 0 .. (3 * LowestRow(balls) + 3) } :
        NearBalls(balls, origin, <<x, z>>) # {} }

Min(a, b) == IF a < b THEN a ELSE b

Flying == ~panicked /\ phase = "post" /\ proj.st = "flying" /\ proj.vel # Zero

\* on_projectile_collisions_events: every Started pair of the projectile and a
\* grid ball zeroes the velocity and sends one event.
on_projectile_collisions_events ==
    /\ Flying
    /\ \E x \in AimColumns :
         /\ ContactHeights(x) # {}
         /\ LET p == <<x, SetMax(ContactHeights(x))>>
            IN  \E n \in 1 .. Min(MaxContacts, Cardinality(NearBalls(balls, origin, p))) :
                  /\ proj' = [proj EXCEPT !.pos = p, !.vel = Zero, !.vy = 0]
                  /\ snapEvents' = snapEvents + n
    /\ hist' = [hist EXCEPT !.episodes = @ + 1]
    /\ phase' = "update"
    /\ ran' = {}
    /\ UNCHANGED << storage, origin, bounds, dirty, balls, changed, cmds, btTurn,
                    btReload, turn_counter, score, nextId, panicked, snap, seed, lib, app >>

\* bounce_on_world_bounds at the top wall: clamp, zero the velocity, one event.
bounce_on_world_bounds ==
    /\ Flying
    /\ \E x \in AimColumns :
         /\ ContactHeights(x) = {}
         /\ proj' = [proj EXCEPT !.pos = clamp_top(<<x, bounds[2][1]>>, ProjSkin, bounds[2])[1],
                                 !.vel = Zero, !.vy = 0]
    /\ snapEvents' = snapEvents + 1
    /\ hist' = [hist EXCEPT !.episodes = @ + 1]
    /\ phase' = "update"
    /\ ran' = {}
    /\ UNCHANGED << storage, origin, bounds, dirty, balls, changed, cmds, btTurn,
                    btReload, turn_counter, score, nextId, panicked, snap, seed, lib, app >>

\* A tick in which the projectile, if any, touches nothing.
Integrate ==
    /\ ~panicked
    /\ phase = "post"
    /\ phase' = "update"
    /\ ran' = {}
    /\ UNCHANGED << storage, origin, bounds, dirty, balls, changed, cmds, proj,
                    snapEvents, btTurn, btReload, turn_counter, score, nextId,
                    panicked, snap, seed, lib, hist, app >>

Next ==
    \/ on_begin_turn
    \/ check_game_over
    \/ projectile_reload
    \/ aim_projectile
    \/ on_snap_projectile
    \/ upkeep_hex_transforms
    \/ ApplyCommands
    \/ on_projectile_collisions_events
    \/ bounce_on_world_bounds
    \/ Integrate

Spec == Init /\ [][Next]_vars

(***************************************************************************)
(* The schedule: the engine runs frame after frame, and in every frame     *)
(* each system of the running state.  on_snap_projectile is enabled        *)
(* exactly when SnapPending holds and ends it, so its weak fairness gives  *)
(* that SnapPending does not hold for ever, which is what is assumed.      *)
(***************************************************************************)
SnapPending == Running("snap") /\ snapEvents > 0

FairSeeds == { sd \in Seeds : sd[2] = 1 /\ sd[4] = 1 }

FairInit == Init /\ seed \in FairSeeds

Schedule ==
    /\ WF_vars(upkeep_hex_transforms)
    /\ WF_vars(check_game_over)
    /\ WF_vars(on_begin_turn)
    /\ WF_vars(projectile_reload)
    /\ WF_vars(ApplyCommands)
    /\ WF_vars(Integrate)
    /\ []<>~SnapPending

FairSpec == FairInit /\ [][Next]_vars /\ Schedule

(***************************************************************************)
(* The snap resolver over tall grids: the projectile has been stopped by a *)
(* contact anywhere on the lattice of half columns and half hex sizes      *)
(* (a long frame lets it tunnel into the wall), and is resolved.           *)
(***************************************************************************)
DeepPositions(bl, org, w, h) ==
    { p \in { org[1] + i * HalfColumn : i \in 0 .. (2 * w - 1) }
              \X { org[2] + k * HalfSize : k \in 0 .. (3 * h + 3) } :
        NearBalls(bl, org, p) # {} }

InitSnap ==
    /\ seed \in Seeds
    /\ InitGrid(GridW, TallH)
    /\ cmds = NoCmds
    /\ \E p \in DeepPositions(GeneratedBalls(GridW, TallH, seed),
                              ensure_centered(GeneratedStorage(GridW, TallH), <<0, 0>>),
                              GridW, TallH) :
         proj = [st |-> "flying", sp |-> ProjectileSpecies(seed, 0), pos |-> p, y |-> SPAWN_Y, vel |-> Zero, vy |-> 0]
    /\ snapEvents \in 1 .. MaxContacts
    /\ btTurn = 0
    /\ btReload = 0
    /\ turn_counter = 1
    /\ score = 0
    /\ phase = "update"
    /\ ran = {}
    /\ panicked = FALSE
    /\ snap = NoSnap
    /\ app = AppIn("Gameplay")
    /\ hist = [NoHist EXCEPT !.episodes = 1]
    /\ lib = NoCall

NextSnap ==
    \/ on_snap_projectile
    \/ on_begin_turn
    \/ check_game_over
    \/ projectile_reload
    \/ upkeep_hex_transforms
    \/ ApplyCommands
    \/ Integrate

SpecSnap == InitSnap /\ [][NextSnap]_vars

(***************************************************************************)
(* The Update stage over drawn event queues: the projectile has been       *)
(* stopped by a straight shot, and any number of BeginTurn events up to    *)
(* MaxQueued is unread at any value of the turn counter.                   *)
(***************************************************************************)
InitTurn ==
    /\ seed \in Seeds
    /\ InitGrid(GridW, GridH)
    /\ cmds = NoCmds
    /\ \E x \in AimColumns :
         /\ ContactHeights(x) # {}
         /\ proj = [st |-> "flying", sp |-> ProjectileSpecies(seed, 0),
                    pos |-> <<x, SetMax(ContactHeights(x))>>, y |-> SPAWN_Y, vel |-> Zero, vy |-> 0]
    /\ snapEvents \in 0 .. 1
    /\ btTurn \in 0 .. MaxQueued
    /\ btReload = btTurn
    /\ turn_counter \in 0 .. MaxTurns
    /\ score = 0
    /\ phase = "update"
    /\ ran = {}
    /\ panicked = FALSE
    /\ snap = NoSnap
    /\ app = AppIn("Gameplay")
    /\ hist = [NoHist EXCEPT !.episodes = snapEvents]
    /\ lib = NoCall

SpecTurn == InitTurn /\ [][NextSnap]_vars

(***************************************************************************)
(* The flight, frame by frame.  The physics step moves the projectile by   *)
(* its velocity and reports the contacts that start at the new position;   *)
(* the PostPhysics systems follow, taken in one order: the contact         *)
(* handler, the side walls, the top wall.  The player has fired from the   *)
(* shooter position in one of five directions, at a grid some balls of     *)
(* which are gone.                                                         *)
(***************************************************************************)
AimDirections == { <<0, -5>>, <<3, -4>>, <<-3, -4>>, <<4, -3>>, <<-4, -3>> }

Velocities == { <<d[1] * FrameStep, d[2] * FrameStep>> : d \in AimDirections }

InPost(done) == ~panicked /\ phase = "post" /\ ran = done

physics_step ==
    /\ ~panicked
    /\ phase = "post"
    /\ "move" \notin ran
    /\ proj' = IF proj.st = "flying"
                 THEN [proj EXCEPT !.pos = <<proj.pos[1] + proj.vel[1],
                                             proj.pos[2] + proj.vel[2]>>,
                                   !.y = proj.y + proj.vy]
                 ELSE proj
    /\ ran' = {"move"}
    /\ UNCHANGED << storage, origin, bounds, dirty, balls, changed, cmds, snapEvents,
                    btTurn, btReload, turn_counter, score, nextId, phase, panicked,
                    snap, seed, lib, hist, app >>

\* on_projectile_collisions_events on the contacts the physics step reported.
projectile_contacts ==
    /\ InPost({"move"})
    /\ IF proj.st = "flying" /\ proj.vel # Zero /\ NearBalls(balls, origin, proj.pos) # {}
         THEN \E n \in 1 .. Min(MaxContacts,
                                Cardinality(NearBalls(balls, origin, proj.pos))) :
                /\ proj' = [proj EXCEPT !.vel = Zero, !.vy = 0]
                /\ snapEvents' = snapEvents + n
                /\ hist' = [hist EXCEPT !.episodes = @ + 1]
         ELSE UNCHANGED << proj, snapEvents, hist >>
    /\ ran' = {"move", "hit"}
    /\ UNCHANGED << storage, origin, bounds, dirty, balls, changed, cmds, btTurn,
                    btReload, turn_counter, score, nextId, phase, panicked, snap,
                    seed, lib, app >>

\* Variant: the clamped projectile keeps its velocity.
BounceKeep(p, skin, x_bounds) ==
    [p EXCEPT !.pos = clamp_inside_world_bounds(p.pos, skin, x_bounds)[1]]

\* bounce_on_world_bounds: the position is clamped; if it was, vel.x changes sign.
Bounce(p, skin, x_bounds) ==
    LET cl == clamp_inside_world_bounds(p.pos, skin, x_bounds)
    IN  [p EXCEPT !.pos = cl[1],
                  !.vel = IF cl[2] THEN <<-p.vel[1], p.vel[2]>> ELSE p.vel]

bounce_on_side_walls ==
    /\ InPost({"move", "hit"})
    /\ proj' = IF proj.st = "flying" THEN Bounce(proj, ProjSkin, bounds[1]) ELSE proj
    /\ ran' = {"move", "hit", "side"}
    /\ UNCHANGED << storage, origin, bounds, dirty, balls, changed, cmds, snapEvents,
                    btTurn, btReload, turn_counter, score, nextId, phase, panicked,
                    snap, seed, lib, hist, app >>

\* Variant: the projectile is clamped at the top wall and goes on flying.
clamp_on_top_wall_sliding ==
    /\ InPost({"move", "hit", "side"})
    /\ proj' = IF proj.st = "flying"
                 THEN [proj EXCEPT !.pos = clamp_top(proj.pos, ProjSkin, bounds[2])[1]]
                 ELSE proj
    /\ ran' = {"move", "hit", "side", "top"}
    /\ UNCHANGED << storage, origin, bounds, dirty, balls, changed, cmds, btTurn,
                    btReload, turn_counter, score, nextId, phase, panicked, snap,
                    seed, lib, app, snapEvents, hist >>

\* The top wall: the flying projectile is clamped, stopped, and one event is sent.
clamp_on_top_wall ==
    /\ InPost({"move", "hit", "side"})
    /\ IF proj.st = "flying" /\ clamp_top(proj.pos, ProjSkin, bounds[2])[2]
         THEN /\ proj' = [proj EXCEPT !.pos = clamp_top(proj.pos, ProjSkin, bounds[2])[1],
                                      !.vel = Zero, !.vy = 0]
              /\ snapEvents' = snapEvents + 1
              /\ hist' = [hist EXCEPT !.episodes = @ + 1]
         ELSE UNCHANGED << proj, snapEvents, hist >>
    /\ ran' = {"move", "hit", "side", "top"}
    /\ UNCHANGED << storage, origin, bounds, dirty, balls, changed, cmds, btTurn,
                    btReload, turn_counter, score, nextId, phase, panicked, snap,
                    seed, lib, app >>

\* The end of the frame.
frame_end ==
    /\ InPost({"move", "hit", "side", "top"})
    /\ phase' = "update"
    /\ ran' = {}
    /\ UNCHANGED << storage, origin, bounds, dirty, balls, changed, cmds, proj,
                    snapEvents, btTurn, btReload, turn_counter, score, nextId,
                    panicked, snap, seed, lib, hist, app >>

InitFlight ==
    /\ seed \in FairSeeds
    /\ \E gone \in SUBSET (1 .. Len(rectangle_pointy(GridW, GridH))) :
         /\ balls = Restrict(GeneratedBalls(GridW, GridH, seed),
                             DOMAIN GeneratedBalls(GridW, GridH, seed) \ gone)
         /\ storage = Restrict(GeneratedStorage(GridW, GridH),
                               { c \in DOMAIN GeneratedStorage(GridW, GridH) :
                                   GeneratedStorage(GridW, GridH)[c] \notin gone })
    /\ changed = {}
    /\ origin = ensure_centered(GeneratedStorage(GridW, GridH), <<0, 0>>)
    /\ bounds = update_bounds(GeneratedStorage(GridW, GridH),
                              ensure_centered(GeneratedStorage(GridW, GridH), <<0, 0>>))
    /\ dirty = FALSE
    /\ nextId = Len(rectangle_pointy(GridW, GridH)) + 1
    /\ cmds = NoCmds
    /\ \E v \in Velocities :
         proj = [st |-> "flying", sp |-> ProjectileSpecies(seed, 0),
                 pos |-> ShooterPos, y |-> SPAWN_Y, vel |-> v, vy |-> 0]
    /\ snapEvents = 0
    /\ btTurn = 0
    /\ btReload = 0
    /\ turn_counter = 1
    /\ score = 0
    /\ phase = "post"
    /\ ran = {}
    /\ panicked = FALSE
    /\ snap = NoSnap
    /\ app = AppIn("Gameplay")
    /\ hist = NoHist
    /\ lib = NoCall

NextFlight ==
    \/ physics_step
    \/ projectile_contacts
    \/ bounce_on_side_walls
    \/ clamp_on_top_wall
    \/ frame_end
    \/ upkeep_hex_transforms
    \/ check_game_over
    \/ on_begin_turn
    \/ projectile_reload
    \/ on_snap_projectile
    \/ ApplyCommands

\* The schedule of the Update stage, and the frames of the PostPhysics stage.
SpecFlight ==
    /\ InitFlight
    /\ [][NextFlight]_vars
    /\ WF_vars(upkeep_hex_transforms)
    /\ WF_vars(check_game_over)
    /\ WF_vars(on_begin_turn)
    /\ WF_vars(projectile_reload)
    /\ WF_vars(ApplyCommands)
    /\ []<>~SnapPending
    /\ WF_vars(physics_step)
    /\ WF_vars(projectile_contacts)
    /\ WF_vars(bounce_on_side_walls)
    /\ WF_vars(clamp_on_top_wall)
    /\ WF_vars(frame_end)

(***************************************************************************)
(* The shots of a game, frame by frame.  The projectile waits at the       *)
(* shooter position; the player clicks with the pointer in one of five     *)
(* directions, and the click, the flight, the resolution and the reload    *)
(* follow each other for the first MaxShots turns.  The host chooses the   *)
(* time step of a frame: in a frame of no duration nothing moves, and the  *)
(* systems run all the same.                                               *)
(***************************************************************************)
\* aim_projectile, the pointer anywhere the player can aim.
aim_at_pointer ==
    /\ Running("aim")
    /\ "begin" \in ran
    /\ "reload" \in ran
    /\ proj.st \in {"idle", "flying"}
    /\ proj.st = "idle" => turn_counter <= MaxShots
    /\ \E d \in AimDirections : proj' = Fire(proj, d)
    /\ ran' = ran \cup {"aim"}
    /\ UNCHANGED << storage, origin, bounds, dirty, balls, changed, cmds, snapEvents,
                    btTurn, btReload, turn_counter, score, nextId, phase, panicked,
                    snap, seed, lib, hist, app >>

\* The physics step of a frame of no duration: the projectile stays.
physics_step_still ==
    /\ ~panicked
    /\ phase = "post"
    /\ "move" \notin ran
    /\ ran' = {"move"}
    /\ UNCHANGED << storage, origin, bounds, dirty, balls, changed, cmds, proj,
                    snapEvents, btTurn, btReload, turn_counter, score, nextId, phase,
                    panicked, snap, seed, lib, hist, app >>

InitShot ==
    /\ seed \in FairSeeds
    /\ InitGrid(GridW, GridH)
    /\ cmds = NoCmds
    /\ proj = NoProj
    /\ snapEvents = 0
    /\ btTurn = 1
    /\ btReload = 1
    /\ turn_counter = 0
    /\ score = 0
    /\ phase = "update"
    /\ ran = {}
    /\ panicked = FALSE
    /\ snap = NoSnap
    /\ app = AppIn("Gameplay")
    /\ hist = NoHist
    /\ lib = NoCall

NextShot ==
    \/ aim_at_pointer
    \/ physics_step_still
    \/ NextFlight

SpecShot == InitShot /\ [][NextShot]_vars

(***************************************************************************)
(* The application states.  A transition queued by State::set is carried   *)
(* out in the same Update stage once the systems of the running state have *)
(* run: the systems on_exit of the old state, then on_enter of the new     *)
(* one.  The start is the freshly built application, or a late game: the   *)
(* generated grid has come down to row LateH, the game-over row is the     *)
(* next one, and a stopped projectile waits for its resolution.            *)
(***************************************************************************)
\* The loading state ends when the assets are there.
finish_loading ==
    /\ ~panicked
    /\ phase = "update"
    /\ app.state = "Loading"
    /\ app.next = "none"
    /\ app' = [app EXCEPT !.next = "Menu"]
    /\ UNCHANGED << storage, origin, bounds, dirty, balls, changed, cmds, proj,
                    snapEvents, btTurn, btReload, turn_counter, score, nextId, phase,
                    ran, panicked, snap, seed, lib, hist >>

\* Variant: the button of the game-over menu starts the next game at once.
game_over_click_replay ==
    /\ ~panicked
    /\ phase = "update"
    /\ app.state = "GameOver"
    /\ app.next = "none"
    /\ app' = [app EXCEPT !.next = "Gameplay"]
    /\ UNCHANGED << storage, origin, bounds, dirty, balls, changed, cmds, proj,
                    snapEvents, btTurn, btReload, turn_counter, score, nextId, phase,
                    ran, panicked, snap, seed, lib, hist >>

\* start_menu.rs: click_play_button, the button clicked.
start_menu_click_play_button ==
    /\ ~panicked
    /\ phase = "update"
    /\ app.state = "Menu"
    /\ app.next = "none"
    /\ app' = [app EXCEPT !.next = "Gameplay"]
    /\ UNCHANGED << storage, origin, bounds, dirty, balls, changed, cmds, proj,
                    snapEvents, btTurn, btReload, turn_counter, score, nextId, phase,
                    ran, panicked, snap, seed, lib, hist >>

\* game_over.rs: click_play_button, the button clicked.
game_over_click_play_button ==
    /\ ~panicked
    /\ phase = "update"
    /\ app.state = "GameOver"
    /\ app.next = "none"
    /\ app' = [app EXCEPT !.next = "Menu"]
    /\ UNCHANGED << storage, origin, bounds, dirty, balls, changed, cmds, proj,
                    snapEvents, btTurn, btReload, turn_counter, score, nextId, phase,
                    ran, panicked, snap, seed, lib, hist >>

\* Variant: the menu shows the score of before the latest resolution.
ShownBefore(sc) == IF snap.n > 0 THEN snap.score0 ELSE sc

\* game_over.rs: setup_menu reads Score when GameOver is entered.
ShownScore(sc) == sc

\* on_enter(Gameplay): generate_grid needs the GenerateGrid resource, which it
\* removes; setup_gameplay resets score and turn counter and sends BeginTurn.
\* The two systems are not ordered: when generate_grid fails, setup_gameplay
\* has run already or has not.
EnterGameplay ==
    IF app.gen
      THEN /\ storage' = GeneratedStorage(GridW, GridH)
           /\ origin' = ensure_centered(GeneratedStorage(GridW, GridH), origin)
           /\ bounds' = update_bounds(GeneratedStorage(GridW, GridH),
                                      ensure_centered(GeneratedStorage(GridW, GridH), origin))
           /\ dirty' = FALSE
           /\ balls' = GeneratedBalls(GridW, GridH, seed)
           /\ changed' = DOMAIN GeneratedBalls(GridW, GridH, seed)
           /\ nextId' = Len(rectangle_pointy(GridW, GridH)) + 1
           /\ score' = 0
           /\ turn_counter' = 0
           /\ btTurn' = btTurn + 1
           /\ btReload' = btReload + 1
           /\ app' = [app EXCEPT !.state = "Gameplay", !.next = "none", !.gen = FALSE]
           /\ ran' = {}
           /\ UNCHANGED panicked
      ELSE /\ panicked' = TRUE
           /\ \/ UNCHANGED << score, turn_counter, btTurn, btReload >>
              \/ /\ score' = 0
                 /\ turn_counter' = 0
                 /\ btTurn' = btTurn + 1
                 /\ btReload' = btReload + 1
           /\ UNCHANGED << storage, origin, bounds, dirty, balls, changed, nextId, app, ran >>

state_transition ==
    /\ ~panicked
    /\ phase = "update"
    /\ PassDone
    /\ app.next # "none"
    /\ IF app.next = "Gameplay"
         THEN EnterGameplay
         ELSE /\ app' = [app EXCEPT !.state = app.next, !.next = "none",
                                    !.shown = IF app.next = "GameOver"
                                                THEN ShownScore(score) ELSE @]
              /\ UNCHANGED << storage, origin, bounds, dirty, balls, changed, nextId,
                              score, turn_counter, btTurn, btReload, ran, panicked >>
    /\ UNCHANGED << cmds, proj, snapEvents, phase, snap, seed, lib, hist >>

InitFresh ==
    /\ storage = <<>>
    /\ origin = <<0, 0>>
    /\ bounds = << <<0, 0>>, <<0, 0>> >>
    /\ dirty = FALSE
    /\ balls = <<>>
    /\ changed = {}
    /\ nextId = 1
    /\ proj = NoProj
    /\ snapEvents = 0
    /\ turn_counter = 0
    /\ hist = NoHist
    /\ lib = NoCall
    /\ app = [AppIn("Loading") EXCEPT !.gen = TRUE]

InitLate ==
    /\ storage = GeneratedStorage(GridW, LateH)
    /\ origin = ensure_centered(GeneratedStorage(GridW, GridH), <<0, 0>>)
    /\ bounds = update_bounds(GeneratedStorage(GridW, GridH),
                              ensure_centered(GeneratedStorage(GridW, GridH), <<0, 0>>))
    /\ dirty = TRUE
    /\ balls = GeneratedBalls(GridW, LateH, seed)
    /\ changed = {}
    /\ nextId = Len(rectangle_pointy(GridW, LateH)) + 1
    /\ \E x \in AimColumns :
         /\ ContactHeights(x) # {}
         /\ proj = [st |-> "flying", sp |-> ProjectileSpecies(seed, 0),
                    pos |-> <<x, SetMax(ContactHeights(x))>>, y |-> SPAWN_Y, vel |-> Zero, vy |-> 0]
    /\ snapEvents = 1
    /\ turn_counter \in {MOVE_DOWN_TURN - 1, MOVE_DOWN_TURN}
    /\ hist = [snaps |-> turn_counter - 1, episodes |-> 1]
    /\ lib = NoCall
    /\ app = AppIn("Gameplay")

InitOver ==
    /\ seed \in Seeds
    /\ cmds = NoCmds
    /\ btTurn = 0
    /\ btReload = 0
    /\ score = 0
    /\ phase = "update"
    /\ ran = {}
    /\ panicked = FALSE
    /\ snap = NoSnap
    /\ InitFresh \/ InitLate

NextOver ==
    \/ Next
    \/ finish_loading
    \/ start_menu_click_play_button
    \/ game_over_click_play_button
    \/ state_transition

SpecOver == InitOver /\ [][NextOver]_vars

(***************************************************************************)
(* The library functions called on their own.  A call is drawn at the      *)
(* start: lib.fn names the function, lib.args holds its arguments and      *)
(* lib.ret collects what the applications return, in order.  The game is   *)
(* not running: the application is still loading.                          *)
(***************************************************************************)
GameIdle == << origin, bounds, balls, changed, cmds, proj, snapEvents, btTurn,
               btReload, turn_counter, score, nextId, phase, ran, panicked,
               snap, seed, hist, app >>

InitIdle ==
    /\ origin = Zero
    /\ bounds = << Zero, Zero >>
    /\ balls = <<>>
    /\ changed = {}
    /\ cmds = NoCmds
    /\ proj = NoProj
    /\ snapEvents = 0
    /\ btTurn = 0
    /\ btReload = 0
    /\ turn_counter = 0
    /\ score = 0
    /\ nextId = 1
    /\ phase = "update"
    /\ ran = {}
    /\ panicked = FALSE
    /\ snap = NoSnap
    /\ seed = <<0, 0, 0, 0>>
    /\ hist = NoHist
    /\ app = AppIn("Loading")

Call(fn, args) == [fn |-> fn, args |-> args, ret |-> <<>>]

Coords == (0 - LibSpan) .. LibSpan

\* clamp_inside_world_bounds(pos, size, x_bounds), with min <= max.
ClampCalls ==
    { Call("clamp_inside_world_bounds", << <<x, 0>>, size, <<lo, hi>> >>) :
        x \in Coords, size \in 1 .. LibRadius,
        lo \in Coords, hi \in Coords }

\* The position the next application of the clamp is given: the argument,
\* then the position the application before returned.
ClampInput == IF lib.ret = <<>> THEN lib.args[1] ELSE lib.ret[Len(lib.ret)][1]

call_clamp ==
    /\ lib.fn = "clamp_inside_world_bounds"
    /\ Len(lib.ret) < 2
    /\ lib' = [lib EXCEPT !.ret =
                 Append(@, clamp_inside_world_bounds(ClampInput, lib.args[2], lib.args[3]))]
    /\ UNCHANGED << storage, dirty >>
    /\ UNCHANGED GameIdle

\* Hex::neighbor(dir, layout), then the step back: the neighbour's neighbour
\* in the opposite direction.
NeighborCalls ==
    { Call("neighbor", << <<q, r>>, Directions[i], o >>) :
        q \in Coords, r \in Coords, i \in 1 .. 6, o \in Orientations }

Opposite(dir) ==
    CASE dir = "N"  -> "S"
      [] dir = "NE" -> "SW"
      [] dir = "SE" -> "NW"
      [] dir = "S"  -> "N"
      [] dir = "SW" -> "NE"
      [] dir = "NW" -> "SE"

call_neighbor ==
    /\ lib.fn = "neighbor"
    /\ Len(lib.ret) < 2
    /\ lib' = [lib EXCEPT !.ret =
                 IF @ = <<>>
                   THEN << neighbor_in(lib.args[1], lib.args[2], lib.args[3]) >>
                   ELSE Append(@, neighbor_in(@[1], Opposite(lib.args[2]), lib.args[3]))]
    /\ UNCHANGED << storage, dirty >>
    /\ UNCHANGED GameIdle

\* rectangle(w, h, o) with w >= 0 and h >= 0.
RectangleCalls ==
    { Call("rectangle", <<w, h, o>>) :
        w \in 0 .. LibSpan, h \in 0 .. LibSpan, o \in Orientations }

call_rectangle ==
    /\ lib.fn = "rectangle"
    /\ lib.ret = <<>>
    /\ lib' = [lib EXCEPT !.ret = << rectangle(lib.args[1], lib.args[2], lib.args[3]) >>]
    /\ UNCHANGED << storage, dirty >>
    /\ UNCHANGED GameIdle

\* The drawn grids: any part of a region of LibCells cells (the first cells
\* of a rectangle two columns wide) is occupied, each cell by one of two
\* entities.
Region == { rectangle_pointy(2, LibCells \div 2)[i] : i \in 1 .. LibCells }

LibGrids == UNION { [S -> 1 .. 2] : S \in SUBSET Region }

\* Grid::set(hex, entity), then Grid::get(hex).  The hex is a cell of the
\* region or one outside it; the entity is None (0), an entity the grid may
\* hold already, or a new one.
SetCalls ==
    { Call("set", <<hex, entity>>) : hex \in Region \cup {<<2, 0>>}, entity \in {0, 1, 3} }

Grid_set ==
    /\ lib.fn = "set"
    /\ lib.ret = <<>>
    /\ dirty' = TRUE
    /\ storage' = set(storage, lib.args[1], lib.args[2])
    /\ lib' = [lib EXCEPT !.ret = << get(storage, lib.args[1]) >>]
    /\ UNCHANGED GameIdle

Grid_get ==
    /\ lib.fn = "set"
    /\ Len(lib.ret) = 1
    /\ lib' = [lib EXCEPT !.ret = Append(@, get(storage, lib.args[1]))]
    /\ UNCHANGED << storage, dirty >>
    /\ UNCHANGED GameIdle

\* find_cluster(grid, origin, pred): the origin is a cell of the region or
\* one outside it, the predicate accepts any set of the entities, the grid's
\* layout has either orientation.
ClusterCalls ==
    { Call("find_cluster", <<hex, accept, o>>) :
        hex \in Region \cup {<<2, 0>>}, accept \in SUBSET (1 .. 2), o \in Orientations }

call_find_cluster ==
    /\ lib.fn = "find_cluster"
    /\ lib.ret = <<>>
    /\ lib' = [lib EXCEPT !.ret = << find_cluster_in(storage, lib.args[1], lib.args[2], lib.args[3]) >>]
    /\ UNCHANGED << storage, dirty >>
    /\ UNCHANGED GameIdle

\* Grid::neighbor(hex, dir) on a cell of the region or one outside it.
GridNeighborCalls ==
    { Call("Grid_neighbor", <<hex, Directions[i], o>>) :
        hex \in Region \cup {<<2, 0>>}, i \in 1 .. 6, o \in Orientations }

call_Grid_neighbor ==
    /\ lib.fn = "Grid_neighbor"
    /\ lib.ret = <<>>
    /\ lib' = [lib EXCEPT !.ret =
                 << Grid_neighbor(storage, lib.args[1], lib.args[2], lib.args[3]) >>]
    /\ UNCHANGED << storage, dirty >>
    /\ UNCHANGED GameIdle

\* Grid::update_bounds on a grid that has just been changed; the origin of
\* the layout is the world origin or a point off it.
BoundsCalls ==
    { Call("update_bounds", <<org>>) : org \in { Zero, <<0 - HalfColumn, HalfSize>> } }

Grid_update_bounds ==
    /\ lib.fn = "update_bounds"
    /\ lib.ret = <<>>
    /\ dirty' = FALSE
    /\ bounds' = update_bounds(storage, lib.args[1])
    /\ lib' = [lib EXCEPT !.ret = << bounds' >>]
    /\ UNCHANGED << storage, origin, balls, changed, cmds, proj, snapEvents, btTurn,
                    btReload, turn_counter, score, nextId, phase, ran, panicked,
                    snap, seed, hist, app >>

\* find_floating_clusters(grid): the map is iterated in one of two orders
\* (by row and column, or the reverse); the layout has either orientation.
Reverse(seq) == [i \in 1 .. Len(seq) |-> seq[Len(seq) + 1 - i]]

FloatingCalls(st) ==
    { Call("find_floating_clusters", <<order, o>>) :
        order \in { KeyOrder(DOMAIN st), Reverse(KeyOrder(DOMAIN st)) },
        o \in Orientations }

call_find_floating_clusters ==
    /\ lib.fn = "find_floating_clusters"
    /\ lib.ret = <<>>
    /\ lib' = [lib EXCEPT !.ret =
                 << find_floating_clusters_in(storage, lib.args[1], lib.args[2]) >>]
    /\ UNCHANGED << storage, dirty >>
    /\ UNCHANGED GameIdle

InitGridCall ==
    /\ storage \in LibGrids
    /\ \/ lib \in SetCalls
       \/ lib \in BoundsCalls
       \/ lib \in ClusterCalls
       \/ lib \in GridNeighborCalls
       \/ Range(storage) \subseteq {1} /\ lib \in FloatingCalls(storage)
    /\ dirty = (lib.fn = "update_bounds")

\* Layout::hex_to_world on the hexes of a column q, then Layout::world_to_hex
\* on the positions returned.  The sizes are about 0.05, 1 and 2 world units;
\* an origin coordinate is 0, 65536 sizes either way, or 2^20 world units.
LayoutSizes == { <<51, 51>>, <<1024, 2048>>, <<2048, 1024>> }

Layouts ==
    { [orientation |-> o, origin |-> <<ox, oy>>, size |-> sz] :
        o \in Orientations, sz \in LayoutSizes,
        ox \in {0, 65536, 1073741824}, oy \in {0, -65536, 1073741824} }

Scaled(layout) ==
    [layout EXCEPT !.origin =
       << IF Abs(@[1]) = 65536 THEN @[1] * layout.size[1] ELSE @[1],
          IF Abs(@[2]) = 65536 THEN @[2] * layout.size[2] ELSE @[2] >>]

RoundTripCalls ==
    { Call("hex_to_world", << Scaled(layout), q >>) :
        layout \in Layouts, q \in (0 - HexSpan) .. HexSpan }

call_hex_to_world ==
    /\ lib.fn = "hex_to_world"
    /\ lib.ret = <<>>
    /\ lib' = [lib EXCEPT !.ret =
                 << [r \in (0 - HexSpan) .. HexSpan |->
                       Layout_hex_to_world(lib.args[1], <<lib.args[2], r>>)] >>]
    /\ UNCHANGED << storage, dirty >>
    /\ UNCHANGED GameIdle

call_world_to_hex ==
    /\ lib.fn = "hex_to_world"
    /\ Len(lib.ret) = 1
    /\ lib' = [lib EXCEPT !.ret =
                 Append(@, [r \in (0 - HexSpan) .. HexSpan |->
                              Layout_world_to_hex(lib.args[1], lib.ret[1][r])])]
    /\ UNCHANGED << storage, dirty >>
    /\ UNCHANGED GameIdle

InitPureCall ==
    /\ storage = <<>>
    /\ dirty = FALSE
    /\ \/ lib \in { c \in ClampCalls : c.args[3][1] <= c.args[3][2] }
       \/ lib \in NeighborCalls
       \/ lib \in RectangleCalls

InitLib ==
    /\ InitIdle
    /\ InitPureCall \/ InitGridCall

NextLib ==
    \/ call_clamp
    \/ call_neighbor
    \/ call_rectangle
    \/ Grid_set
    \/ Grid_get
    \/ call_find_cluster
    \/ call_find_floating_clusters
    \/ call_Grid_neighbor
    \/ Grid_update_bounds

SpecLib == InitLib /\ [][NextLib]_vars

\* The conversions between hexes and world positions, called on their own.
InitLayout ==
    /\ InitIdle
    /\ storage = <<>>
    /\ dirty = FALSE
    /\ lib \in RoundTripCalls

NextLayout ==
    \/ call_hex_to_world
    \/ call_world_to_hex

SpecLayout == InitLayout /\ [][NextLayout]_vars

(***************************************************************************)
(* The contact handler on the collision events of one frame, whatever the  *)
(* physics engine reports: each event is Started or Stopped and names two  *)
(* entities, which are grid balls, the projectile or some other entity.    *)
(* The projectile, when there is one, is the entity spawned last; it waits,*)
(* flies or has been stopped by an earlier contact.                        *)
(***************************************************************************)
ProjectileEntity == nextId
OtherEntity == nextId + 1

\* The body of the loop for the event i: p1 is projectile.get_mut(d1), or of
\* d2 when that fails; when d1 or d2 is a ball, p1 is unwrapped, the velocity
\* is zeroed and an event is sent for the ball.
CollisionLoop(events, i, bl, acc) ==
    LET e == events[i]
        p1 == acc.p.st = "flying" /\ ProjectileEntity \in {e.a, e.b}
        ball == IF e.a \in DOMAIN bl THEN e.a ELSE IF e.b \in DOMAIN bl THEN e.b ELSE 0
    IN  IF ~e.started \/ ball = 0
          THEN acc
          ELSE IF ~p1
                 THEN [acc EXCEPT !.panic = TRUE]
                 ELSE [acc EXCEPT !.p = [@ EXCEPT !.vel = Zero, !.vy = 0],
                                  !.sent = Append(@, ball)]

RECURSIVE CollisionEvents(_, _, _, _)
CollisionEvents(events, i, bl, acc) ==
    IF i > Len(events) \/ acc.panic
      THEN acc
      ELSE CollisionEvents(events, i + 1, bl, CollisionLoop(events, i, bl, acc))

ContactBalls == 1 .. 2

ContactEvents ==
    { e \in [started : BOOLEAN,
             a : ContactBalls \cup {ProjectileEntity, OtherEntity},
             b : ContactBalls \cup {ProjectileEntity, OtherEntity}] :
        /\ e.a # e.b
        /\ proj.st = "none" => ProjectileEntity \notin {e.a, e.b} }

ContactCalls ==
    { Call("on_projectile_collisions_events", <<events>>) :
        events \in UNION { [1 .. n -> ContactEvents] : n \in 0 .. MaxContacts } }

on_collision_events ==
    /\ ~panicked
    /\ phase = "post"
    /\ lib.fn = "on_projectile_collisions_events"
    /\ lib.ret = <<>>
    /\ \E r \in { CollisionEvents(lib.args[1], 1, balls,
                                   [p |-> proj, sent |-> <<>>, panic |-> FALSE]) } :
         /\ proj' = r.p
         /\ snapEvents' = snapEvents + Len(r.sent)
         /\ panicked' = r.panic
         /\ lib' = [lib EXCEPT !.ret = <<r.sent>>]
    /\ UNCHANGED << storage, origin, bounds, dirty, balls, changed, cmds, btTurn,
                    btReload, turn_counter, score, nextId, phase, ran, snap, seed,
                    hist, app >>

InitContact ==
    /\ seed = <<0, 0, 0, 0>>
    /\ InitGrid(GridW, GridH)
    /\ cmds = NoCmds
    /\ \/ proj = NoProj
       \/ proj = [st |-> "idle", sp |-> 0, pos |-> ShooterPos, y |-> SPAWN_Y,
                  vel |-> Zero, vy |-> 0]
       \/ \E v \in {Zero, Straight} :
            proj = [st |-> "flying", sp |-> 0,
                    pos |-> hex_to_world(origin, <<0, GridH + 1>>), y |-> SPAWN_Y,
                    vel |-> v, vy |-> 0]
    /\ snapEvents = 0
    /\ btTurn = 0
    /\ btReload = 0
    /\ turn_counter = 1
    /\ score = 0
    /\ phase = "post"
    /\ ran = {}
    /\ panicked = FALSE
    /\ snap = NoSnap
    /\ app = AppIn("Gameplay")
    /\ hist = NoHist
    /\ lib \in ContactCalls

NextContact == on_collision_events

SpecContact == InitContact /\ [][NextContact]_vars

(***************************************************************************)
(* Properties.                                                             *)
(***************************************************************************)
\* The start of a tick: no system of the Update stage has run yet.
TickBoundary == phase = "update" /\ ran = {} /\ ~panicked

\* The resolver has run in this tick and its commands are not applied yet;
\* snap.r records the stages of that resolution.
JustSnapped == snap.n > 0 /\ snap.fresh

\* The step is the run of the system sys.
StepOf(sys) == ran' \ ran = {sys}

\* The cells of the map holding the handle e.
CellsOf(e) == { c \in DOMAIN storage : storage[c] = e }

\* The cells reachable from the cells S through adjacent cells of st whose
\* occupant is in accept (a least fixed point, independent of find_cluster).
RECURSIVE Grow(_, _, _)
Grow(st, accept, S) ==
    LET N == S \cup { n \in DOMAIN st : /\ st[n] \in accept
                                        /\ \E c \in S : n \in SeqRange(neighbors(c)) }
    IN  IF N = S THEN S ELSE Grow(st, accept, N)

Connected(st, start, accept) ==
    Grow(st, accept, IF start \in DOMAIN st /\ st[start] \in accept THEN {start} ELSE {})

\* The same for a grid whose layout has the given orientation.
RECURSIVE GrowIn(_, _, _, _)
GrowIn(st, accept, S, o) ==
    LET N == S \cup { n \in DOMAIN st :
                        /\ st[n] \in accept
                        /\ \E c \in S : \E i \in 1 .. 6 :
                              n = neighbor_in(c, Directions[i], o) }
    IN  IF N = S THEN S ELSE GrowIn(st, accept, N, o)

ConnectedIn(st, start, accept, o) ==
    GrowIn(st, accept, IF start \in DOMAIN st /\ st[start] \in accept THEN {start} ELSE {}, o)

\* Every occupied cell is connected through occupied cells to a cell of row 0.
Anchored(st) == DOMAIN st = Grow(st, Range(st), { c \in DOMAIN st : c[2] = 0 })

\* C1: no ball handle occupies two different cells of the map, in any state
\* (generation, snap, descent and upkeep_hex_transforms are the mutations).
C1_HandleInOneCell ==
    \A c, d \in DOMAIN storage : storage[c] = storage[d] => c = d

\* C2: at every tick boundary every live grid ball occupies exactly one cell
\* of the map, also after a snap whose search used all MAX_ITER iterations and
\* installed on an occupied hex.
C2_LiveBallInOneCell ==
    TickBoundary => \A e \in DOMAIN balls : Cardinality(CellsOf(e)) = 1

\* C3: the match cluster is the set C of cells connected to the new hex through
\* cells holding the new ball or a ball of the projectile's species; with
\* |C| >= 3 every cell of C is cleared and its ball despawned; with |C| < 3 the
\* match step clears nothing, and the map the resolution leaves is the map
\* before it plus the new ball at the resolved, free hex.
C3_MatchStep ==
    JustSnapped =>
      \E C \in {Connected(snap.r.st1, snap.r.hex,
                          MatchAccept(balls, snap.r.ball, snap.sp))} :
        /\ SeqRange(snap.r.cluster) = C
        /\ Len(snap.r.cluster) = Cardinality(C)
        /\ snap.r.matched <=> Cardinality(C) >= 3
        /\ Cardinality(C) >= 3 =>
             \A c \in C : /\ c \notin DOMAIN snap.r.st2
                          /\ snap.r.st1[c] \in SeqRange(snap.r.despawned)
                          /\ snap.r.st1[c] \in cmds.despawn
        /\ Cardinality(C) < 3 =>
             /\ snap.r.st2 = snap.r.st1
             /\ snap.r.hex \notin DOMAIN snap.r.pre
             /\ storage = (snap.r.hex :> snap.r.ball) @@ snap.r.pre

C3_Matched ==
    /\ JustSnapped
    /\ Len(snap.r.cluster) >= 3
    /\ \E c \in SeqRange(snap.r.cluster) : snap.r.st1[c] # snap.r.ball

\* C4: once a snap resolution has finished, in every state from then on (the
\* tick boundaries among them) every occupied cell is connected through
\* occupied cells to a cell of row 0.
C4_Anchored == (hist.snaps > 0 /\ ~panicked) => Anchored(storage)

C4_SweptAndLater ==
    /\ TickBoundary
    /\ snap.n > 0
    /\ snap.r.st3 # snap.r.st2
    /\ storage # << >>

\* C5: a snap raises the score by the number of balls it removed, each ball
\* counted once.
C5_ScoreIsBallsRemoved ==
    JustSnapped => score - snap.score0 = Cardinality(SeqRange(snap.r.despawned))

\* C6: a resolution runs the descent exactly when turn_counter % MOVE_DOWN_TURN
\* is 0 at that snap, and the k-th snap is resolved at turn_counter = k: the
\* wall descends during the 5th, 10th, ... snap only.
C6_DescentEveryFifth ==
    JustSnapped =>
      /\ snap.turn = snap.n
      /\ (snap.r.rows # << >>) <=> (snap.turn % MOVE_DOWN_TURN = 0)
      /\ (snap.r.retag # << >>) => (snap.n % MOVE_DOWN_TURN = 0)
      /\ (DOMAIN cmds.spawn # {snap.r.ball}) <=> (snap.n % MOVE_DOWN_TURN = 0)

C6_FifthSnap ==
    /\ JustSnapped
    /\ snap.n = MOVE_DOWN_TURN
    /\ snap.r.rows # << >>
    /\ snap.r.retag # << >>

\* C7 (as stated): a non-matching snap resolved while turn_counter = 4 has the
\* counter at 5 and the descent run when the resolution is over.
C7_DescentAtFour ==
    (JustSnapped /\ snap.turn = 4 /\ ~snap.r.matched) =>
      (turn_counter = 5 /\ snap.r.rows # << >>)

\* C7 (amended): the resolver never writes turn_counter; a snap resolved while
\* turn_counter = 4 queues no descent, and the snap resolved while
\* turn_counter = 5 queues it (a new row, and a move of every ball of the map).
C7_DescentAtFive ==
    [][ (StepOf("snap") /\ proj.st = "flying") =>
          /\ turn_counter' = turn_counter
          /\ turn_counter = 4 =>
               (cmds'.retag = << >> /\ DOMAIN cmds'.spawn = {nextId})
          /\ turn_counter = 5 =>
               (DOMAIN cmds'.retag = Range(snap'.r.st3) /\ DOMAIN cmds'.spawn # {nextId}) ]_vars

C7_SnapAtFour ==
    /\ JustSnapped
    /\ snap.turn = 4
    /\ ~snap.r.matched
    /\ turn_counter = 4

\* C8: on_begin_turn adds exactly 1 to turn_counter when at least one BeginTurn
\* is unread, however many are queued, and leaves it alone otherwise; no other
\* step changes turn_counter.
C8_OneIncrementPerTick ==
    [][ /\ StepOf("begin") =>
             turn_counter' = IF btTurn > 0 THEN turn_counter + 1 ELSE turn_counter
        /\ StepOf("begin") => btTurn' = 0
        /\ ~StepOf("begin") => turn_counter' = turn_counter ]_vars

C8_SeveralQueued ==
    /\ "begin" \in ran
    /\ "reload" \notin ran
    /\ "snap" \notin ran
    /\ btReload >= 2
    /\ btTurn = 0
    /\ turn_counter > 0

\* C9: the search stops after at most MAX_ITER iterations, on a free hex when
\* it stops earlier, and right after the install the resolved hex holds the
\* new ball and no other.
C9_SearchBounded ==
    JustSnapped =>
      /\ snap.r.iters <= MAX_ITER
      /\ snap.r.iters < MAX_ITER => snap.r.hex \notin DOMAIN snap.r.pre
      /\ snap.r.hex \in DOMAIN snap.r.st1
      /\ snap.r.st1[snap.r.hex] = snap.r.ball
      /\ snap.r.ball \notin Range(snap.r.pre)

C9_Exhausted ==
    /\ JustSnapped
    /\ snap.r.iters = MAX_ITER
    /\ snap.r.hex \in DOMAIN snap.r.pre

\* C10: with several snap events unread in a tick the resolution runs once:
\* one grid ball is created at the resolved hex, the projectile is destroyed,
\* one BeginTurn is emitted, and no event is left; every tick with contacts
\* is resolved exactly once.
C10_OneResolutionPerTick ==
    /\ [](snapEvents = 0 => hist.episodes = hist.snaps)
    /\ [](snapEvents > 0 => hist.episodes = hist.snaps + 1)
    /\ [][ (StepOf("snap") /\ proj.st = "flying" /\ ~panicked') =>
             /\ snapEvents' = 0
             /\ hist'.snaps = hist.snaps + 1
             /\ cmds'.kill
             /\ DOMAIN cmds'.spawn \ DOMAIN snap'.r.rows = {nextId}
             /\ cmds'.spawn[nextId] = [sp |-> proj.sp, hex |-> snap'.r.hex]
             /\ btTurn' = btTurn + 1
             /\ btReload' = btReload + 1 ]_vars

C10_SeveralEvents ==
    /\ JustSnapped
    /\ snap.events >= 2
    /\ snapEvents = 0

C13_FlyingLatch ==
    [][/\ (proj.st # "flying" /\ proj'.st = "flying") =>
            (StepOf("aim") /\ proj.st = "idle")
       /\ (StepOf("aim") /\ proj.st = "flying") => proj' = proj
       /\ (proj.st = "flying" /\ proj'.st # "flying") =>
            (JustSnapped /\ cmds.kill /\ phase' = "post")]_vars

\* A fire edge came while the stopped projectile was still flying.
C13_EdgeWhileFlying ==
    /\ proj.st = "flying"
    /\ proj.vel = Zero
    /\ "aim" \in ran
    /\ phase = "update"

C20_SideBounce ==
    [][(StepOf("side") /\ proj.st = "flying") =>
         /\ proj'.pos[2] = proj.pos[2]
         /\ proj'.vel[2] = proj.vel[2]
         /\ proj'.st = proj.st /\ proj'.sp = proj.sp
         /\ IF proj.pos[1] - ProjSkin <= bounds[1][1]
              THEN /\ proj'.pos[1] = bounds[1][1] + ProjSkin
                   /\ proj'.vel[1] = -proj.vel[1]
              ELSE IF proj.pos[1] + ProjSkin >= bounds[1][2]
                THEN /\ proj'.pos[1] = bounds[1][2] - ProjSkin
                     /\ proj'.vel[1] = -proj.vel[1]
                ELSE proj' = proj
         /\ Abs(proj'.vel[1]) = Abs(proj.vel[1])]_vars

\* The projectile flew to the left, was clamped at the left wall and flies to
\* the right.
C20_BouncedLeft ==
    /\ phase = "post"
    /\ "side" \in ran
    /\ proj.st = "flying"
    /\ proj.pos[1] = bounds[1][1] + ProjSkin
    /\ proj.vel[1] > 0

\* The tick after a descent, once upkeep_hex_transforms has synced the tags.
DescentSynced ==
    /\ snap.n > 0
    /\ ~snap.fresh
    /\ snap.r.descended
    /\ phase = "update"
    /\ "upkeep" \in ran

\* C18: after a descent and the sync of the tags, the map is the map before
\* the descent with every hex replaced by its down neighbour, plus the balls
\* the descent spawned: no ball is lost and no key of before stays behind.
C18_DescentShiftsMap ==
    DescentSynced =>
      /\ DOMAIN storage = { down(k) : k \in DOMAIN snap.r.st3 }
                             \cup { snap.r.rows[e].hex : e \in DOMAIN snap.r.rows }
      /\ \A k \in DOMAIN snap.r.st3 : storage[down(k)] = snap.r.st3[k]
      /\ \A e \in DOMAIN snap.r.rows : storage[snap.r.rows[e].hex] = e

\* C19: the balls a descent spawns are one per column, all of them in the
\* anchor row r = 0; after the sync of the tags every column of the anchor row
\* holds a spawned ball in the map.
C19_AnchorRowRefilled ==
    /\ (JustSnapped /\ snap.r.descended) =>
          /\ \A e \in DOMAIN snap.r.rows : snap.r.rows[e].hex[2] = 0
          /\ Cardinality(DOMAIN snap.r.rows) = columns(bounds)
    /\ DescentSynced =>
          \A e \in DOMAIN snap.r.rows :
             snap.r.rows[e].hex[2] = 0 =>
               /\ snap.r.rows[e].hex \in DOMAIN storage
               /\ storage[snap.r.rows[e].hex] = e

\* C15: check_game_over requests GameOver exactly when some occupied cell of
\* the map lies on the game-over row or beyond it, the row two rows from the
\* shooter's hex; otherwise it leaves the state as it is.
C15_GameOverIff ==
    [][StepOf("over") =>
         IF \E c \in DOMAIN storage : c[2] >= world_to_hex(origin, ShooterPos)[2] + 2
           THEN app' = [app EXCEPT !.next = "GameOver"]
           ELSE app' = app]_vars

\* check_game_over has requested GameOver in this tick.
C15_Requested ==
    /\ app.state = "Gameplay"
    /\ app.next = "GameOver"
    /\ "over" \in ran

\* C16: the state changes only from Loading to Menu, from Menu to Gameplay,
\* from Gameplay to GameOver and from GameOver to Menu; Gameplay is requested
\* only in Menu, GameOver only by check_game_over in Gameplay, Menu only in
\* Loading and GameOver; snaps are resolved and turns counted only in Gameplay.
C16_StateCycle ==
    /\ [][app'.state # app.state =>
             << app.state, app'.state >> \in
               { <<"Loading", "Menu">>, <<"Menu", "Gameplay">>,
                 <<"Gameplay", "GameOver">>, <<"GameOver", "Menu">> }]_vars
    /\ [][(app'.next # app.next /\ app'.next # "none") =>
             /\ app'.next = "Gameplay" => app.state = "Menu"
             /\ app'.next = "GameOver" => (app.state = "Gameplay" /\ StepOf("over"))
             /\ app'.next = "Menu" => app.state \in {"Loading", "GameOver"}]_vars
    /\ [][(hist'.snaps # hist.snaps \/ turn_counter' > turn_counter
               \/ snapEvents' < snapEvents) =>
             (app.state = "Gameplay" /\ app'.state = "Gameplay")]_vars

\* The game was over and the player has returned to the menu.
C16_BackInMenu ==
    /\ app.state = "Menu"
    /\ app.shown >= 0

\* C17: the score the game-over menu reads is the score at the transition,
\* with the score_add of the latest resolution in it, in whichever order the
\* resolver and check_game_over ran; it is the score as long as the game is
\* over.
C17_ScoreShown ==
    /\ [][(app.state = "Gameplay" /\ app'.state = "GameOver") =>
             /\ app'.shown = score
             /\ snap.n > 0 => score = snap.score0 + snap.r.score_add]_vars
    /\ [](app.state = "GameOver" => app.shown = score)

\* The game is over after a resolution that removed balls.
C17_RemovedThenOver ==
    /\ app.state = "GameOver"
    /\ snap.n > 0
    /\ snap.r.score_add > 0
    /\ app.shown = snap.score0 + snap.r.score_add

(***************************************************************************)
(* C30.  During Gameplay the grid map is changed only by the snap resolver *)
(* (the descent step runs inside it): a step of any other system, the      *)
(* transform sync of the hex tags included, leaves the map as it was.      *)
(***************************************************************************)
C30_MapWriters == [][storage' # storage => StepOf("snap")]_vars

(***************************************************************************)
(* C29.  At every tick boundary the cached bounds enclose the world centre *)
(* of every ball in the grid map with a margin of one hex on each side.    *)
(* The margin asked for is the least reading of "one hex": the inscribed   *)
(* radius hex_world_size[1], which update_bounds leaves on all four sides. *)
(***************************************************************************)
Encloses(bnds, c, margin) ==
    /\ bnds[1][1] + margin <= c[1]
    /\ c[1] <= bnds[1][2] - margin
    /\ bnds[2][1] + margin <= c[2]
    /\ c[2] <= bnds[2][2] - margin

C29_BoundsEnclose ==
    TickBoundary =>
      \A h \in DOMAIN storage :
         Encloses(bounds, hex_to_world(origin, h), hex_world_size[1])

(***************************************************************************)
(* C21.  As claimed: for every position, radius and bounds, the wall clamp *)
(* applied to its own output returns the position of the first             *)
(* application.                                                            *)
(***************************************************************************)
ClampedTwice == lib.fn = "clamp_inside_world_bounds" /\ Len(lib.ret) = 2

C21_ClampIdempotent ==
    ClampedTwice => lib.ret[2][1] = lib.ret[1][1]

\* C21 as amended: the same, for bounds at least as wide as the ball
\* (max - min >= 2 * radius).
WideEnough == lib.args[3][2] - lib.args[3][1] >= 2 * lib.args[2]

C21_ClampIdempotentWide ==
    (ClampedTwice /\ WideEnough) => lib.ret[2][1] = lib.ret[1][1]

\* The first application clamped at the right wall of bounds exactly as wide
\* as the ball, and the second one returned the same position.
C21_ClampedAtRightWall ==
    /\ ClampedTwice
    /\ lib.args[3][2] - lib.args[3][1] = 2 * lib.args[2]
    /\ lib.ret[1][2]
    /\ lib.ret[1][1][1] = lib.args[3][2] - lib.args[2]
    /\ lib.ret[1][1] # lib.args[1]
    /\ lib.ret[2][1] = lib.ret[1][1]

(***************************************************************************)
(* C25.  For every hex, direction and orientation, the neighbour of the    *)
(* hex in the direction has the hex as its neighbour in the opposite       *)
(* direction, each step taking its offset table by the parity of the hex   *)
(* it starts from.                                                         *)
(***************************************************************************)
C25_NeighborSymmetric ==
    (lib.fn = "neighbor" /\ Len(lib.ret) = 2) => lib.ret[2] = lib.args[1]

(***************************************************************************)
(* C26.  As claimed: for every w >= 0, h >= 0 and both orientations,       *)
(* rectangle(w, h, orientation) yields exactly w * (h + 1) hexes and no    *)
(* hex twice.                                                              *)
(***************************************************************************)
RectangleDone == lib.fn = "rectangle" /\ lib.ret # <<>>

NoHexTwice(hexes) ==
    \A i \in 1 .. Len(hexes) : \A j \in 1 .. Len(hexes) : hexes[i] = hexes[j] => i = j

C26_RectangleCount ==
    RectangleDone =>
      /\ Len(lib.ret[1]) = lib.args[1] * (lib.args[2] + 1)
      /\ NoHexTwice(lib.ret[1])

\* C26 as amended: w * (h + 1) hexes for the pointy orientation and
\* (w + 1) * h hexes for the flat one, and no hex twice.
C26_RectangleCountByOrientation ==
    RectangleDone =>
      /\ Len(lib.ret[1]) = IF lib.args[3] = "Flat"
                             THEN (lib.args[1] + 1) * lib.args[2]
                             ELSE lib.args[1] * (lib.args[2] + 1)
      /\ NoHexTwice(lib.ret[1])

\* A flat rectangle has been yielded whose count differs from w * (h + 1):
\* the columns 0..2 with three rows each.
C26_FlatRectangle ==
    /\ RectangleDone
    /\ lib.args = <<2, 3, "Flat">>
    /\ Len(lib.ret[1]) = 9
    /\ lib.ret[1][1] = <<0, 0>>
    /\ lib.ret[1][9] = <<2, 1>>

(***************************************************************************)
(* C28.  Grid.set(hex, Some(ball)) makes get(hex) return the ball and      *)
(* Grid.set(hex, None) makes it return nothing; either call returns the    *)
(* occupant the hex held before (or nothing), sets the dirty flag and      *)
(* leaves the occupant of every other cell unchanged.                      *)
(***************************************************************************)
SetStep == lib.fn = "set" /\ lib.ret = <<>> /\ lib'.ret # <<>>

C28_SetThenGet ==
    /\ [][SetStep =>
             /\ lib'.ret[1] = (IF lib.args[1] \in DOMAIN storage
                                 THEN storage[lib.args[1]] ELSE 0)
             /\ dirty'
             /\ lib.args[2] # 0 => /\ lib.args[1] \in DOMAIN storage'
                                   /\ storage'[lib.args[1]] = lib.args[2]
             /\ lib.args[2] = 0 => lib.args[1] \notin DOMAIN storage'
             /\ DOMAIN storage' \ {lib.args[1]} = DOMAIN storage \ {lib.args[1]}
             /\ \A c \in DOMAIN storage \ {lib.args[1]} : storage'[c] = storage[c]]_vars
    /\ []((lib.fn = "set" /\ Len(lib.ret) = 2) => lib.ret[2] = lib.args[2])

\* A ball was set over another one, the call returned the one replaced and
\* get returned the new one; the grid holds other balls too.
C28_Overwritten ==
    /\ lib.fn = "set"
    /\ Len(lib.ret) = 2
    /\ lib.args[2] = 3
    /\ lib.ret = <<1, 3>>
    /\ dirty
    /\ Cardinality(DOMAIN storage) > 2

(***************************************************************************)
(* C22.  As claimed: find_cluster(g, h, p) returns (members, visited) with *)
(* every member in visited, every member an occupied cell whose occupant   *)
(* satisfies p, and every one of the six neighbours of every member in     *)
(* visited.                                                                *)
(***************************************************************************)
ClusterDone == lib.fn = "find_cluster" /\ lib.ret # <<>>

Members == SeqRange(lib.ret[1][1])
Visited == lib.ret[1][2]

NeighbourOf(m, i) == neighbor_in(m, Directions[i], lib.args[3])

MembersSound ==
    /\ Members \subseteq Visited
    /\ \A m \in Members : m \in DOMAIN storage /\ storage[m] \in lib.args[2]

C22_VisitedClosed ==
    ClusterDone =>
      /\ MembersSound
      /\ \A m \in Members : \A i \in 1 .. 6 : NeighbourOf(m, i) \in Visited

\* C22 as amended: every occupied one of the six neighbours of every member
\* is in visited (whatever its occupant), and no vacant cell other than the
\* origin is.
C22_VisitedClosedOccupied ==
    ClusterDone =>
      /\ MembersSound
      /\ \A m \in Members : \A i \in 1 .. 6 :
            NeighbourOf(m, i) \in DOMAIN storage => NeighbourOf(m, i) \in Visited
      /\ Visited \subseteq DOMAIN storage \cup {lib.args[1]}

\* A cluster of three members beside a rejected ball that was visited and a
\* vacant cell of the region that was not.
C22_RejectedNeighbourVisited ==
    /\ ClusterDone
    /\ Cardinality(Members) = 3
    /\ \E v \in Visited \ Members : v \in DOMAIN storage
    /\ \E m \in Members : \E i \in 1 .. 6 :
          NeighbourOf(m, i) \in Region \ (Visited \cup DOMAIN storage)

(***************************************************************************)
(* C23.  The members returned by find_cluster are, as a set, the maximal   *)
(* set of occupied cells satisfying the predicate that are reachable from  *)
(* the origin by six-neighbour steps through such cells; when the origin   *)
(* is vacant or its occupant rejected, members is empty and visited still  *)
(* contains the origin.                                                    *)
(***************************************************************************)
C23_MembersAreComponent ==
    ClusterDone =>
      /\ Members = ConnectedIn(storage, lib.args[1], lib.args[2], lib.args[3])
      /\ lib.args[1] \in Visited
      /\ (lib.args[1] \notin DOMAIN storage \/ storage[lib.args[1]] \notin lib.args[2])
            => (lib.ret[1][1] = <<>> /\ Visited = {lib.args[1]})

\* The cluster has three members and the grid holds an accepted ball that is
\* not one of them.
C23_TwoComponents ==
    /\ ClusterDone
    /\ Cardinality(Members) = 3
    /\ \E c \in DOMAIN storage \ Members : storage[c] \in lib.args[2]

(***************************************************************************)
(* C24.  find_floating_clusters returns exactly the connected components   *)
(* of occupied cells that hold no cell of the anchor row (r = 0 for a      *)
(* pointy layout, q = 0 for a flat one), each once and with all its cells, *)
(* and so the empty list when every component touches the anchor row.      *)
(***************************************************************************)
FloatingDone == lib.fn = "find_floating_clusters" /\ lib.ret # <<>>

\* Two cells are adjacent when either is one of the six neighbours of the
\* other; a component is closed under adjacency among the occupied cells.
Adjacent(a, b, o) ==
    \E i \in 1 .. 6 : b = neighbor_in(a, Directions[i], o) \/ a = neighbor_in(b, Directions[i], o)

RECURSIVE ComponentOf(_, _, _)
ComponentOf(cells, S, o) ==
    LET N == S \cup { n \in cells : \E c \in S : Adjacent(c, n, o) }
    IN  IF N = S THEN S ELSE ComponentOf(cells, N, o)

Components(cells, o) == { ComponentOf(cells, {c}, o) : c \in cells }

OnAnchorRow(c, o) == IF o = "Flat" THEN c[1] = 0 ELSE c[2] = 0

FloatingComponents(cells, o) ==
    { C \in Components(cells, o) : \A c \in C : ~OnAnchorRow(c, o) }

C24_FloatingComponents ==
    FloatingDone =>
      /\ { SeqRange(lib.ret[1][k]) : k \in 1 .. Len(lib.ret[1]) }
            = FloatingComponents(DOMAIN storage, lib.args[2])
      /\ Len(lib.ret[1]) = Cardinality(FloatingComponents(DOMAIN storage, lib.args[2]))
      /\ \A k \in 1 .. Len(lib.ret[1]) :
            Len(lib.ret[1][k]) = Cardinality(SeqRange(lib.ret[1][k]))

(***************************************************************************)
(* C27.  As claimed: for every layout (both orientations, any origin and   *)
(* positive size) and every hex with |q| <= 100 and |r| <= 100, the hex    *)
(* converted to its world position and back is the hex again.              *)
(***************************************************************************)
RoundTripDone == lib.fn = "hex_to_world" /\ Len(lib.ret) = 2

C27_RoundTrip ==
    RoundTripDone =>
      \A r \in (0 - HexSpan) .. HexSpan : lib.ret[2][r] = <<lib.args[2], r>>

\* C27 as amended: the same for the layouts whose origin lies within 65536
\* hex sizes of zero on either axis.
OriginNear(layout) ==
    /\ Abs(layout.origin[1]) <= 65536 * layout.size[1]
    /\ Abs(layout.origin[2]) <= 65536 * layout.size[2]

C27_RoundTripNearOrigin ==
    (RoundTripDone /\ OriginNear(lib.args[1])) =>
      \A r \in (0 - HexSpan) .. HexSpan : lib.ret[2][r] = <<lib.args[2], r>>

\* The column q = -HexSpan of a flat layout whose origin is 65536 sizes from
\* zero has been converted and converted back; the positions were rounded.
C27_FarColumn ==
    /\ RoundTripDone
    /\ lib.args[2] = 0 - HexSpan
    /\ lib.args[1].orientation = "Flat"
    /\ lib.args[1].size = <<2048, 1024>>
    /\ lib.args[1].origin = <<65536 * 2048, -65536 * 1024>>
    /\ lib.ret[1][HexSpan][1] % 16 = 0
    /\ lib.ret[2][HexSpan] = <<0 - HexSpan, HexSpan>>
(***************************************************************************)
(* C31.  A projectile's velocity has y component 0 in every reachable      *)
(* state: the click, the bounce on a side wall and the contact with a ball *)
(* all leave linvel.y = 0.                                                 *)
(***************************************************************************)
C31_VelocityInPlane == proj.vy = 0

\* A projectile fired sideways has bounced off a side wall and flies on.
C31_FiredAndBounced ==
    /\ proj.st = "flying"
    /\ proj.vel[1] > 0
    /\ proj.pos[1] < 0
    /\ hist.snaps = 1
    /\ proj.vy = 0

(***************************************************************************)
(* C39.  Whenever the bounce handler changes the sign of linvel.x, the     *)
(* resulting linvel.x points away from the wall that was hit: it is        *)
(* positive after a clamp at the left wall and negative after a clamp at   *)
(* the right wall, also when the handler runs in two consecutive frames    *)
(* between which the projectile did not move.                              *)
(***************************************************************************)
BounceStep ==
    /\ InPost({"move", "hit"})
    /\ ran' = {"move", "hit", "side"}
    /\ proj.st = "flying"

AtLeftWall == proj.pos[1] - ProjSkin <= bounds[1][1]

AtRightWall == ~AtLeftWall /\ proj.pos[1] + ProjSkin >= bounds[1][2]

C39_BounceAwayFromWall ==
    [][(BounceStep /\ proj'.vel[1] # proj.vel[1]) =>
          /\ AtLeftWall => proj'.vel[1] > 0
          /\ AtRightWall => proj'.vel[1] < 0]_vars

(***************************************************************************)
(* C32.  Every Started collision pair that does not consist of the flying  *)
(* projectile and a grid ball (a pair with no grid ball, or a pair with a  *)
(* grid ball and no flying projectile) is ignored without failure: it      *)
(* sends no event, changes no velocity and the handler does not panic.     *)
(* The handler does what it does on the other pairs alone.                 *)
(***************************************************************************)
ContactCall == lib.fn = "on_projectile_collisions_events" /\ lib.ret = <<>>

IsHit(e) ==
    /\ e.started
    /\ proj.st = "flying"
    /\ \/ e.a = ProjectileEntity /\ e.b \in DOMAIN balls
       \/ e.b = ProjectileEntity /\ e.a \in DOMAIN balls

Hits == SelectSeq(lib.args[1], IsHit)

C32_OtherPairsIgnored ==
    [][ContactCall =>
          /\ ~panicked'
          /\ snapEvents' = snapEvents + Len(Hits)
          /\ proj' = IF Hits = <<>> THEN proj ELSE [proj EXCEPT !.vel = Zero, !.vy = 0]]_vars

(***************************************************************************)
(* C33.  When the Gameplay state exits to GameOver no projectile entity    *)
(* remains: a projectile that exists at that moment, idle or flying, is    *)
(* destroyed by the cleanup of the exit.  The commands the systems of the   *)
(* exit queue are applied at the end of the stage, so the claim is read at *)
(* the end of the Update stage in which GameOver was entered, and of every *)
(* later one.                                                              *)
(***************************************************************************)
C33_NoProjectileAfterExit ==
    (app.state = "GameOver" /\ phase = "post") => proj.st = "none"

(***************************************************************************)
(* C40.  For every hex and direction Grid::neighbor returns nothing when   *)
(* the adjacent cell in that direction is vacant, and otherwise the        *)
(* coordinate of the adjacent cell paired with its occupant: the pair that *)
(* Grid::neighbors lists for that direction.                               *)
(***************************************************************************)
GridNeighborDone == lib.fn = "Grid_neighbor" /\ lib.ret # <<>>

AdjacentCell == neighbor_in(lib.args[1], lib.args[2], lib.args[3])

C40_NeighborIsAdjacentCell ==
    GridNeighborDone =>
      lib.ret[1] = IF AdjacentCell \in SeqRange(GridNeighborsIn(storage, lib.args[1], lib.args[3]))
                     THEN << AdjacentCell, storage[AdjacentCell] >>
                     ELSE << >>
(***************************************************************************)
(* C36.  After update_bounds on any grid, the empty one included, the      *)
(* dirty flag is false and min <= max holds on each axis of the bounds;    *)
(* on a grid with occupants the bounds are the least and greatest world    *)
(* coordinates of the occupied cells, widened by sx on both x sides and by *)
(* sy on both y sides.                                                     *)
(***************************************************************************)
BoundsDone == lib.fn = "update_bounds" /\ lib.ret # <<>>

CellPositions == { hex_to_world(lib.args[1], h) : h \in DOMAIN storage }

TightBounds ==
    << << SetMin({ p[1] : p \in CellPositions }) - hex_world_size[1],
          SetMax({ p[1] : p \in CellPositions }) + hex_world_size[1] >>,
       << SetMin({ p[2] : p \in CellPositions }) - hex_world_size[2],
          SetMax({ p[2] : p \in CellPositions }) + hex_world_size[2] >> >>

C36_BoundsTight ==
    BoundsDone =>
      /\ ~dirty
      /\ bounds[1][1] <= bounds[1][2]
      /\ bounds[2][1] <= bounds[2][2]
      /\ storage # <<>> => bounds = TightBounds
(***************************************************************************)
(* C38.  find_cluster terminates on every finite grid: it returns after at *)
(* most one pop of the work stack per occupied cell and one for the        *)
(* origin.  No cell is pushed onto the work stack twice, and no cell       *)
(* appears twice in the members returned.                                  *)
(***************************************************************************)
Pushed == lib.ret[1][3]

C38_PushedOnce ==
    ClusterDone =>
      /\ NoHexTwice(Pushed)
      /\ NoHexTwice(lib.ret[1][1])
      /\ Len(Pushed) <= Cardinality(DOMAIN storage \cup {lib.args[1]})

\* A search over a ring of cells: a member has two members next to it that
\* are next to each other, so the search met a cell that was pushed already.
C38_MetPushedCell ==
    /\ ClusterDone
    /\ Len(Pushed) >= 4
    /\ \E a, b, c \in Members :
          /\ a # b /\ b # c /\ a # c
          /\ b \in SeqRange(GridNeighborsIn(storage, a, lib.args[3]))
          /\ c \in SeqRange(GridNeighborsIn(storage, a, lib.args[3]))
          /\ c \in SeqRange(GridNeighborsIn(storage, b, lib.args[3]))
(***************************************************************************)
(* C34.  For the same grid contents, projectile position and species, the  *)
(* set of cells a snap clears (match cluster and floating clusters) and    *)
(* the score it adds are the same whatever the order in which the map is   *)
(* iterated and the order in which the flood fill visits the neighbours    *)
(* of a cell: a resolution that completes leaves the map and the score     *)
(* that the resolution leaves under every such order.                      *)
(***************************************************************************)
\* The orders compared.  Of the directions: the order of Direction::all(),
\* its reverse, and two orders that interleave opposite directions.  Of the
\* map's keys: the order by row and column started at its first key and at
\* its middle one, forwards and backwards.
DirOrders ==
    { Directions,
      <<"NW", "SW", "S", "SE", "NE", "N">>,
      <<"N", "S", "NE", "SW", "SE", "NW">>,
      <<"SE", "NW", "S", "NE", "SW", "N">> }

MapStarts(S) == { 0, Cardinality(S) \div 2 }

SnapResolves == StepOf("snap") /\ proj.st = "flying" /\ ~panicked'

C34_OrderIndependent ==
    [][SnapResolves =>
         \A h \in {Install(Searched)} :
         \A dirs \in DirOrders :
         \A k \in MapStarts(DOMAIN h.st1) :
         \A backwards \in BOOLEAN :
         \A a \in {ClearedBy(h, k, backwards, dirs)} :
            /\ ~a.panic
            /\ a.st = storage'
            /\ score' = score + a.score_add]_vars

\* A resolution that cleared a match and a floating cluster, in which two of
\* the orders find the cells of the match in different sequences.
MatchedBalls == { snap.r.st1[c] : c \in SeqRange(snap.r.cluster) }

C34_OrdersDiffer ==
    /\ JustSnapped
    /\ snap.r.matched
    /\ snap.r.score_add > Len(snap.r.cluster)
    /\ \E d1, d2 \in DirOrders :
          find_cluster_by(snap.r.st1, snap.r.hex, MatchedBalls, "Pointy", d1)[1]
            # find_cluster_by(snap.r.st1, snap.r.hex, MatchedBalls, "Pointy", d2)[1]
(***************************************************************************)
(* C37.  In whatever order on_begin_turn, on_snap_projectile and           *)
(* check_game_over run within a tick, turn_counter is incremented exactly  *)
(* once between two consecutive snaps: the k-th snap of a game is resolved *)
(* while turn_counter = k, the value it tests with turn_counter % 5, and   *)
(* no BeginTurn is then left unread.                                       *)
(***************************************************************************)
C37_SnapObservesItsNumber ==
    [][(StepOf("snap") /\ proj.st = "flying") =>
          /\ turn_counter = hist.snaps + 1
          /\ btTurn = 0]_vars

\* The second or a later snap, resolved in a tick in which on_begin_turn had
\* run before the resolver: the BeginTurn it sent waits for the next tick.
C37_ResolverAfterCounter ==
    /\ JustSnapped
    /\ snap.n >= 2
    /\ "begin" \in ran
    /\ btTurn = 1
    /\ turn_counter = snap.n
(***************************************************************************)
(* C35.  As claimed: over any sequence of operations, the re-entry into    *)
(* Gameplay after GameOver and Menu included, neither the score nor the    *)
(* turn counter ever decreases.                                            *)
(***************************************************************************)
C35_NeverDecrease ==
    [][score' >= score /\ turn_counter' >= turn_counter]_vars

\* C35 as amended: the score and the turn counter decrease in no step but
\* the entry into Gameplay from the menu, where setup_gameplay sets both to 0;
\* while the state is Gameplay they never decrease.
C35_DecreaseOnlyOnEntry ==
    [][(score' < score \/ turn_counter' < turn_counter) =>
          /\ app.state = "Menu"
          /\ app.next = "Gameplay"
          /\ score' = 0
          /\ turn_counter' = 0]_vars

\* A game that scored and counted turns has ended, and the entry into the
\* next game has set the score and the turn counter back to 0.
C35_ResetOnReentry ==
    /\ app.state = "Menu"
    /\ app.next = "Gameplay"
    /\ snap.n > 0
    /\ snap.score0 + snap.r.score_add > 0
    /\ score = 0
    /\ turn_counter = 0
====
